---- MODULE Spec2Model ----
(***************************************************************************)
(* Consensus encoding layer of learn-bitcoin-rs (src/src/consensus/encode.rs, *)
(* src/src/util/endian.rs, src/src/network/message.rs).                     *)
(*                                                                         *)
(* Representation of data:                                                 *)
(*  - a byte buffer (Vec<u8>, the Cursor's data, a sink) is a run-length   *)
(*    list << <<byte, count>>, ... >> with count >= 1 and adjacent runs of *)
(*    different bytes, so that buffers of 4,000,000 bytes and more (the    *)
(*    MAX_VEC_SIZE cases) are ordinary values;                             *)
(*  - a 16-, 32- or 64-bit integer is the list of its 16-bit limbs, least  *)
(*    significant limb first (1, 2 or 4 limbs); signed types hold their    *)
(*    two's complement bit pattern; u8 is 0..255 and i8 is -128..127;      *)
(*  - usize is a limb list of UsizeLimbs limbs.                            *)
(***************************************************************************)
EXTENDS Integers, Sequences, FiniteSets, TLC

VARIABLES
    host_big_endian,  \* cfg!(target_endian = "big") of the build
    usize_bits,       \* pointer width of the build: 32 or 64
    op,               \* the entry point called last
    ty,               \* the type T of the call
    has_value,        \* whether `wire` is what serialize returned for `value`
    value,            \* the value handed to serialize
    wire,             \* the byte buffer: serialize's output or the caller's input
    count,            \* byte count returned by consensus_encode (-1: none)
    enc_err,          \* error returned by consensus_encode
    result,           \* what deserialize / deserialize_partial returned
    vlen,             \* what VarInt::len returned (-1: not called)
    reenc,            \* serialize of the decoded value
    sink_cap,         \* bytes the sink of consensus_encode takes (-1: any number)
    trail,            \* bytes appended to the buffer after serialize
    partial,          \* what deserialize_partial returned for `wire`
    args,             \* arguments of the last call of another function
    returned          \* what that call returned

vars == <<host_big_endian, usize_bits, op, ty, has_value, value, wire, count,
          enc_err, result, vlen, reenc, sink_cap, trail, partial, args, returned>>

(***************************************************************************)
(* Bounds of the model.                                                    *)
(***************************************************************************)
MaxLen == 2
MaxTrail == 1

(***************************************************************************)
(* Byte buffers.                                                           *)
(***************************************************************************)
RECURSIVE BLen(_)
BLen(buf) == IF buf = <<>> THEN 0 ELSE buf[1][2] + BLen(Tail(buf))

BRep(b, n) == IF n = 0 THEN <<>> ELSE << <<b, n>> >>

BCat(a, b) ==
    IF a = <<>> THEN b
    ELSE IF b = <<>> THEN a
    ELSE LET la == a[Len(a)]
             fb == b[1]
         IN  IF la[1] = fb[1]
             THEN SubSeq(a, 1, Len(a) - 1) \o << <<la[1], la[2] + fb[2]>> >> \o Tail(b)
             ELSE a \o b

RECURSIVE BFromSeq(_)
BFromSeq(s) == IF s = <<>> THEN <<>> ELSE BCat(BRep(s[1], 1), BFromSeq(Tail(s)))

RECURSIVE BToSeq(_)
BToSeq(buf) ==
    IF buf = <<>> THEN <<>>
    ELSE [i \in 1..buf[1][2] |-> buf[1][1]] \o BToSeq(Tail(buf))

RECURSIVE BDrop(_, _)
BDrop(buf, k) ==
    IF k = 0 \/ buf = <<>> THEN buf
    ELSE IF buf[1][2] <= k THEN BDrop(Tail(buf), k - buf[1][2])
    ELSE << <<buf[1][1], buf[1][2] - k>> >> \o Tail(buf)

RECURSIVE BTake(_, _)
BTake(buf, k) ==
    IF k = 0 \/ buf = <<>> THEN <<>>
    ELSE IF buf[1][2] <= k THEN <<buf[1]>> \o BTake(Tail(buf), k - buf[1][2])
    ELSE << <<buf[1][1], k>> >>

(***************************************************************************)
(* Fixed-width integers as 16-bit limbs.                                   *)
(***************************************************************************)
LimbBase == 256 * 256

ZeroLimbs(n) == [i \in 1..n |-> 0]

\* `x as uN` between unsigned widths: zero-extend or truncate to n limbs
CastLimbs(x, n) == [i \in 1..n |-> IF i <= Len(x) THEN x[i] ELSE 0]

\* a non-negative Int below 2^31 as n limbs, truncated to n limbs like `as`
IntToLimbs(v, n) ==
    [i \in 1..n |-> IF i = 1 THEN v % LimbBase
                    ELSE IF i = 2 THEN (v \div LimbBase) % LimbBase
                    ELSE 0]

\* whether a limb list is below 2^31, and then its value
FitsInt(x) == \A i \in 1..Len(x) : (i = 2 => x[i] < 32768) /\ (i > 2 => x[i] = 0)
LimbsToInt(x) == x[1] + (IF Len(x) >= 2 THEN x[2] * LimbBase ELSE 0)

RECURSIVE LimbsLtFrom(_, _, _)
LimbsLtFrom(a, b, i) ==
    IF i = 0 THEN FALSE
    ELSE IF a[i] # b[i] THEN a[i] < b[i]
    ELSE LimbsLtFrom(a, b, i - 1)

\* a < b for limb lists, compared at the wider of the two widths
LimbsLt(a, b) ==
    LET n == IF Len(a) > Len(b) THEN Len(a) ELSE Len(b)
    IN  LimbsLtFrom(CastLimbs(a, n), CastLimbs(b, n), n)

RECURSIVE MulLoop(_, _, _, _, _)
MulLoop(x, k, i, carry, acc) ==
    IF i > Len(x) THEN [limbs |-> acc, carry |-> carry]
    ELSE LET p == x[i] * k + carry
         IN  MulLoop(x, k, i + 1, p \div LimbBase, Append(acc, p % LimbBase))

\* usize::wrapping_mul by a small factor: the product modulo 2^width
wrapping_mul(x, k) == [some |-> TRUE, v |-> MulLoop(x, k, 1, 0, <<>>).limbs]

\* the slip `wrapping_mul` for `checked_mul`: the product is never None
checked_mul_wrapping(x, k) == [some |-> TRUE, v |-> MulLoop(x, k, 1, 0, <<>>).limbs]

\* usize::checked_mul by a small factor: None when the product does not fit
Checked(r) == [some |-> r.carry = 0, v |-> r.limbs]
checked_mul(x, k) == Checked(MulLoop(x, k, 1, 0, <<>>))

(***************************************************************************)
(* The build's host: usize and mem::size_of.                               *)
(***************************************************************************)
UsizeLimbs == usize_bits \div 16

\* `len as usize`
as_usize(x) == CastLimbs(x, UsizeLimbs)

\* mem::size_of::<$type>() for the two impl_vec! element types
size_of(elem) == IF elem = "u64" THEN 8 ELSE 3 * (usize_bits \div 8)

(***************************************************************************)
(* util::endian                                                            *)
(***************************************************************************)
ByteOf(val, i) == (val[(i \div 2) + 1] \div (IF i % 2 = 0 THEN 1 ELSE 256)) % 256

\* u16_to_array_le, u32_to_array_le, u64_to_array_le, i16_..., i32_..., i64_...:
\* res[i] = ((val >> i * 8) & 0xff) as u8
define_le_to_array(val, byte_len) == [i \in 1..byte_len |-> ByteOf(val, i - 1)]

\* u32_to_array_be: res[i] = ((val >> (byte_len - i - 1) * 8) & 0xff) as u8
define_be_to_array(val, byte_len) ==
    [i \in 1..byte_len |-> ByteOf(val, byte_len - (i - 1) - 1)]

\* res |= (byte as $type) << shift * 8
OrShifted(res, byte, shift) ==
    [res EXCEPT ![(shift \div 2) + 1] = @ + byte * (IF shift % 2 = 0 THEN 1 ELSE 256)]

RECURSIVE SliceBeLoop(_, _, _, _)
SliceBeLoop(slice, size, i, res) ==
    IF i = size THEN res
    ELSE SliceBeLoop(slice, size, i + 1, OrShifted(res, slice[i + 1], size - i - 1))

RECURSIVE SliceLeLoop(_, _, _, _)
SliceLeLoop(slice, size, i, res) ==
    IF i = size THEN res
    ELSE SliceLeLoop(slice, size, i + 1, OrShifted(res, slice[i + 1], i))

\* the slip of shifting by the big-endian position in a little-endian reader
define_slice_to_le_swapped(slice, size) ==
    SliceBeLoop(slice, size, 0, ZeroLimbs(size \div 2))

\* slice_to_u16_le, slice_to_u32_le, slice_to_u64_le (and the signed ones)
define_slice_to_le(slice, size) == SliceLeLoop(slice, size, 0, ZeroLimbs(size \div 2))

\* the slip of shifting by the little-endian position in the big-endian reader
define_slice_to_be_little(slice, size) ==
    SliceLeLoop(slice, size, 0, ZeroLimbs(size \div 2))

\* slice_to_u32_be
define_slice_to_be(slice, size) == SliceBeLoop(slice, size, 0, ZeroLimbs(size \div 2))

\* the four readers of the module and ::std::mem::size_of of their types
SliceFns == {"slice_to_u32_be", "slice_to_u16_le", "slice_to_u32_le", "slice_to_u64_le"}
SliceSize(fn) ==
    CASE fn = "slice_to_u16_le" -> 2
      [] fn = "slice_to_u64_le" -> 8
      [] OTHER -> 4

\* assert_eq!(slice.len(), size_of::<$type>()) and the loop of the reader
slice_to(fn, slice) ==
    IF Len(slice) # SliceSize(fn) THEN [panicked |-> TRUE, v |-> <<>>]
    ELSE IF fn = "slice_to_u32_be"
    THEN [panicked |-> FALSE, v |-> define_slice_to_be(slice, SliceSize(fn))]
    ELSE [panicked |-> FALSE, v |-> define_slice_to_le(slice, SliceSize(fn))]

\* define_be_to_array!(u32_to_array_be, u32, 4)
u32_to_array_be(val) == define_be_to_array(val, 4)

\* $ty::swap_bytes: the bytes of the value in reverse order
swap_bytes(v) ==
    LET n == Len(v)
    IN  [i \in 1..n |-> (v[n + 1 - i] % 256) * 256 + (v[n + 1 - i] \div 256)]

\* $ty::to_le and $ty::from_le of the multi-byte integer types
to_le(v) == IF host_big_endian THEN swap_bytes(v) ELSE v
from_le(v) == IF host_big_endian THEN swap_bytes(v) ELSE v

(***************************************************************************)
(* encode::Error                                                           *)
(***************************************************************************)
\* a value of the enum: its variant and the variant's fields (empty when the
\* variant has none)
Err(kind, msg, requested, max, cmd) ==
    [kind |-> kind, msg |-> msg, requested |-> requested, max |-> max, cmd |-> cmd]
NoError == Err("none", "", <<>>, 0, <<>>)
IoError(what) == Err("Io", what, <<>>, 0, <<>>)
NonMinimalVarInt == Err("NonMinimalVarInt", "", <<>>, 0, <<>>)
ParseFailed(what) == Err("ParseFailed", what, <<>>, 0, <<>>)
OversizedVectorAllocation(req, mx) == Err("OversizedVectorAllocation", "", req, mx, <<>>)
UnrecognizedNetworkCommand(cmd) == Err("UnrecognizedNetworkCommand", "", <<>>, 0, cmd)

MAX_VEC_SIZE == 4000000

(***************************************************************************)
(* Sinks (io::Write) and WriteExt.  A sink is [buf, cap]: cap = -1 is the  *)
(* growable Cursor<Vec<u8>> of serialize, cap >= 0 a writer that takes cap *)
(* bytes in all and then fails.                                            *)
(***************************************************************************)
NewCursor == [buf |-> <<>>, cap |-> -1]

EncOk(s, n) == [ok |-> TRUE, s |-> s, n |-> n, err |-> NoError]
EncErr(s, e) == [ok |-> FALSE, s |-> s, n |-> 0, err |-> e]

\* Write::write_all(bytes).map_err(Error::Io)
write_all(s, bytes) ==
    IF s.cap = -1 \/ BLen(s.buf) + BLen(bytes) <= s.cap
    THEN EncOk([s EXCEPT !.buf = BCat(s.buf, bytes)], BLen(bytes))
    ELSE EncErr([s EXCEPT !.buf = BCat(s.buf, BTake(bytes, s.cap - BLen(s.buf)))],
                IoError("WriteZero"))

emit_u8(s, v) == write_all(s, BRep(v, 1))
emit_i8(s, v) == write_all(s, BRep(v % 256, 1))
emit_bool(s, v) == write_all(s, BRep(IF v THEN 1 ELSE 0, 1))
emit_slice(s, v) == write_all(s, v)
\* encoder_fn!: emit_u16/u32/u64/i16/i32/i64 of a value of byte_len bytes
encoder_fn(s, v, byte_len) == write_all(s, BFromSeq(define_le_to_array(v, byte_len)))

(***************************************************************************)
(* Sources (io::Read) and ReadExt.  A source is [data, pos, log]: the      *)
(* Cursor over the input and the record of what the decoder did with it:   *)
(* <<"read", n>> a read that filled its n bytes, <<"check", size>> the     *)
(* MAX_VEC_SIZE check, <<"alloc", bytes>> a heap buffer of that many bytes *)
(* requested.                                                              *)
(***************************************************************************)
NewSource(data) == [data |-> data, pos |-> 0, log |-> <<>>]

DecOk(d, v) == [ok |-> TRUE, val |-> v, err |-> NoError, d |-> d]
DecErr(d, e) == [ok |-> FALSE, val |-> 0, err |-> e, d |-> d]

Logged(d, ev) == [d EXCEPT !.log = Append(@, ev)]

\* the slip of asking for one byte more than the buffer takes
read_exact_greedy(d, n) ==
    IF BLen(d.data) - d.pos > n
    THEN DecOk([d EXCEPT !.pos = @ + n, !.log = Append(@, <<"read", n>>)],
               BTake(BDrop(d.data, d.pos), n))
    ELSE DecErr([d EXCEPT !.pos = BLen(d.data)], IoError("UnexpectedEof"))

\* Read::read_exact into a buffer of n bytes; val is the buffer read.  When
\* fewer than n bytes are left the reader takes them all and fails: the
\* source is left at its end, and no read of n bytes is recorded
read_exact(d, n) ==
    IF BLen(d.data) - d.pos >= n
    THEN DecOk([d EXCEPT !.pos = @ + n, !.log = Append(@, <<"read", n>>)],
               BTake(BDrop(d.data, d.pos), n))
    ELSE DecErr([d EXCEPT !.pos = BLen(d.data)], IoError("UnexpectedEof"))

\* read_slice(&mut slice) with slice.len() = n
read_slice(d, n) == read_exact(d, n)

\* Ok(slice[0]) of the one-byte buffer read, or the read's error
FirstByte(r) == IF r.ok THEN DecOk(r.d, BToSeq(r.val)[1]) ELSE r
read_u8(d) == FirstByte(read_exact(d, 1))

\* slice[0] as i8
AsI8(r) == IF r.ok THEN DecOk(r.d, IF r.val >= 128 THEN r.val - 256 ELSE r.val) ELSE r
read_i8(d) == AsI8(FirstByte(read_exact(d, 1)))

\* decoder_fn!: read_u16/u32/u64/i16/i32/i64
FromSlice(r, byte_len) ==
    IF r.ok THEN DecOk(r.d, define_slice_to_le(BToSeq(r.val), byte_len)) ELSE r
decoder_fn(d, byte_len) == FromSlice(read_exact(d, byte_len), byte_len)

\* .map(|bit| bit != 0)
NonZero(r) == IF r.ok THEN DecOk(r.d, r.val # 0) ELSE r
read_bool(d) == NonZero(read_i8(d))

(***************************************************************************)
(* Primitive types: impl_int_encodable!                                    *)
(***************************************************************************)
\* `?` on an emit: the error is returned, else Ok(n) with the sink advanced
Emitted(r, n) == IF r.ok THEN EncOk(r.s, n) ELSE r

u8_consensus_encode(s, v) == Emitted(emit_u8(s, v), 1)
i8_consensus_encode(s, v) == Emitted(emit_i8(s, v), 1)
\* u16, u32, u64, i16, i32, i64: s.$meth_enc(self.to_le())?; Ok(size_of::<$ty>())
int_consensus_encode(s, v, width) == Emitted(encoder_fn(s, to_le(v), width), width)

u8_consensus_decode(d) == read_u8(d)
i8_consensus_decode(d) == read_i8(d)
\* ReadExt::$meth_dec(&mut d).map($ty::from_le)
MapFromLe(r) == IF r.ok THEN DecOk(r.d, from_le(r.val)) ELSE r
int_consensus_decode(d, width) == MapFromLe(decoder_fn(d, width))

(***************************************************************************)
(* VarInt                                                                  *)
(***************************************************************************)
U64(lo, hi) == <<lo, hi, 0, 0>>
\* lo <= v <= hi for u64 limb lists
InRange(v, lo, hi) == ~LimbsLt(v, lo) /\ ~LimbsLt(hi, v)

\* match self.0 { 0...0xFC => 1, 0xFC...0xFFFF => 3, 0xFD...0xFFFF => 5, _ => 9 }
VarInt_len(v) ==
    IF InRange(v, U64(0, 0), U64(252, 0)) THEN 1
    ELSE IF InRange(v, U64(252, 0), U64(65535, 0)) THEN 3
    ELSE IF InRange(v, U64(253, 0), U64(65535, 0)) THEN 5
    ELSE 9

\* s.emit_u8(marker)?; (self.0 as $ty).consensus_encode(s)?; Ok(n)
AfterMarker(m, v, width, n) ==
    IF ~m.ok THEN m ELSE Emitted(int_consensus_encode(m.s, v, width), n)

\* the slip `0...0xFD` in the first arm: 0xFD is written as a single byte
VarInt_consensus_encode_wide(s, v) ==
    IF InRange(v, U64(0, 0), U64(253, 0))
    THEN Emitted(u8_consensus_encode(s, v[1] % 256), 1)
    ELSE IF InRange(v, U64(254, 0), U64(65535, 0))
    THEN AfterMarker(emit_u8(s, 253), CastLimbs(v, 1), 2, 3)
    ELSE IF InRange(v, U64(0, 1), U64(65535, 65535))
    THEN AfterMarker(emit_u8(s, 254), CastLimbs(v, 2), 4, 5)
    ELSE AfterMarker(emit_u8(s, 255), CastLimbs(v, 4), 8, 9)

VarInt_consensus_encode(s, v) ==
    IF InRange(v, U64(0, 0), U64(252, 0))
    THEN Emitted(u8_consensus_encode(s, v[1] % 256), 1)
    ELSE IF InRange(v, U64(253, 0), U64(65535, 0))
    THEN AfterMarker(emit_u8(s, 253), CastLimbs(v, 1), 2, 3)
    ELSE IF InRange(v, U64(0, 1), U64(65535, 65535))
    THEN AfterMarker(emit_u8(s, 254), CastLimbs(v, 2), 4, 5)
    ELSE AfterMarker(emit_u8(s, 255), CastLimbs(v, 4), 8, 9)

\* the slip of leaving the minimality test out
MinimalOr_unchecked(x, min) ==
    IF ~x.ok THEN x ELSE DecOk(x.d, CastLimbs(x.val, 4))

\* let x = ReadExt::read_uN(&mut d)?; if x < min { Err(NonMinimalVarInt) }
\* else { Ok(VarInt(x as u64)) }
MinimalOr(x, min) ==
    IF ~x.ok THEN x
    ELSE IF LimbsLt(x.val, min) THEN DecErr(x.d, NonMinimalVarInt)
    ELSE DecOk(x.d, CastLimbs(x.val, 4))

\* match n { 0xFF => ..., 0xFE => ..., 0xFD => ..., n => Ok(VarInt(n as u64)) }
VarIntMatch(n) ==
    IF ~n.ok THEN n
    ELSE IF n.val = 255 THEN MinimalOr(decoder_fn(n.d, 8), <<0, 0, 1, 0>>)
    ELSE IF n.val = 254 THEN MinimalOr(decoder_fn(n.d, 4), <<0, 1>>)
    ELSE IF n.val = 253 THEN MinimalOr(decoder_fn(n.d, 2), <<253>>)
    ELSE DecOk(n.d, IntToLimbs(n.val, 4))

VarInt_consensus_decode(d) == VarIntMatch(read_u8(d))

(***************************************************************************)
(* bool                                                                    *)
(***************************************************************************)
bool_consensus_encode(s, v) == Emitted(emit_u8(s, IF v THEN 1 ELSE 0), 1)

\* the slip `n == 1` for `n != 0`
IsOne(r) == IF r.ok THEN DecOk(r.d, r.val = 1) ELSE r
bool_consensus_decode_one(d) == IsOne(read_u8(d))

\* ReadExt::read_u8(&mut d).map(|n| n != 0)
bool_consensus_decode(d) == NonZero(read_u8(d))

(***************************************************************************)
(* Arrays: impl_array!(2, 4, 8, 12, 16, 32, 33); a value is the list of    *)
(* its bytes.                                                              *)
(***************************************************************************)
ArraySizes == {2, 4, 8, 12, 16, 32, 33}

array_consensus_encode(s, v) == Emitted(emit_slice(s, BFromSeq(v)), Len(v))

Filled(r) == IF r.ok THEN DecOk(r.d, BToSeq(r.val)) ELSE r
array_consensus_decode(d, size) == Filled(read_slice(d, size))

(***************************************************************************)
(* Vec<u8>; a value is a byte buffer.                                      *)
(***************************************************************************)
\* s.emit_slice(&b)?; Ok(vi_len + b.len())
ThenSlice(vi, b) == IF ~vi.ok THEN vi ELSE Emitted(emit_slice(vi.s, b), vi.n + BLen(b))

VecU8_consensus_encode(s, v) ==
    ThenSlice(VarInt_consensus_encode(s, IntToLimbs(BLen(v), 4)), v)

\* the slip `len >= MAX_VEC_SIZE` in the ceiling test
VecU8Body_ge(d, len) ==
    IF ~LimbsLt(len, IntToLimbs(MAX_VEC_SIZE, UsizeLimbs))
    THEN DecErr(Logged(d, <<"check", len>>), OversizedVectorAllocation(len, MAX_VEC_SIZE))
    ELSE read_slice(Logged(Logged(d, <<"check", len>>), <<"alloc", len>>),
                    LimbsToInt(len))

\* if len > MAX_VEC_SIZE { return Err(..) }; with_capacity(len); resize; read_slice
VecU8Body(d, len) ==
    IF LimbsLt(IntToLimbs(MAX_VEC_SIZE, UsizeLimbs), len)
    THEN DecErr(Logged(d, <<"check", len>>), OversizedVectorAllocation(len, MAX_VEC_SIZE))
    ELSE read_slice(Logged(Logged(d, <<"check", len>>), <<"alloc", len>>),
                    LimbsToInt(len))

\* the slip of allocating the buffer first and testing the ceiling after
VecU8WithLen_alloc_first(l) ==
    IF ~l.ok THEN l
    ELSE IF LimbsLt(IntToLimbs(MAX_VEC_SIZE, UsizeLimbs), as_usize(l.val))
    THEN DecErr(Logged(Logged(l.d, <<"alloc", as_usize(l.val)>>),
                       <<"check", as_usize(l.val)>>),
                OversizedVectorAllocation(as_usize(l.val), MAX_VEC_SIZE))
    ELSE read_slice(Logged(Logged(l.d, <<"alloc", as_usize(l.val)>>),
                           <<"check", as_usize(l.val)>>),
                    LimbsToInt(as_usize(l.val)))

\* let len = VarInt::consensus_decode(&mut d)?.0 as usize;
VecU8WithLen(l) == IF ~l.ok THEN l ELSE VecU8Body(l.d, as_usize(l.val))

VecU8_consensus_decode(d) == VecU8WithLen(VarInt_consensus_decode(d))

(***************************************************************************)
(* Vectors: impl_vec!(Vec<u8>) and impl_vec!(u64); a value is the list of  *)
(* its elements.  elem is "u64" or "VecU8".                                *)
(***************************************************************************)
elem_consensus_encode(elem, s, c) ==
    IF elem = "u64" THEN int_consensus_encode(s, c, 8) ELSE VecU8_consensus_encode(s, c)

elem_consensus_decode(elem, d) ==
    IF elem = "u64" THEN int_consensus_decode(d, 8) ELSE VecU8_consensus_decode(d)

\* for c in self.iter() { len += c.consensus_encode(&mut s)?; }
RECURSIVE VecEncodeLoop(_, _, _, _, _)
VecEncodeStep(elem, r, v, i, len) ==
    IF ~r.ok THEN r ELSE VecEncodeLoop(elem, r.s, v, i + 1, len + r.n)

VecEncodeLoop(elem, s, v, i, len) ==
    IF i > Len(v) THEN EncOk(s, len)
    ELSE VecEncodeStep(elem, elem_consensus_encode(elem, s, v[i]), v, i, len)

VecEncodeWithLen(elem, vi, v) ==
    IF ~vi.ok THEN vi ELSE VecEncodeLoop(elem, vi.s, v, 1, vi.n)

impl_vec_consensus_encode(elem, s, v) ==
    VecEncodeWithLen(elem, VarInt_consensus_encode(s, IntToLimbs(Len(v), 4)), v)

\* the capacity of a vector created with capacity c when it holds n elements:
\* a push that finds the vector full doubles the capacity, to 4 at least
RECURSIVE Capacity(_, _)
Capacity(c, n) ==
    IF n <= c THEN c ELSE Capacity(IF 2 * c < 4 THEN 4 ELSE 2 * c, n)

\* ret.push(..) onto n elements of a vector created with capacity c: a full
\* vector asks for a buffer of the grown capacity
Pushed(elem, d, c, n) ==
    IF n = Capacity(c, n)
    THEN Logged(d, <<"alloc", IntToLimbs(Capacity(c, n + 1) * size_of(elem), UsizeLimbs)>>)
    ELSE d

\* for _ in 0..len { ret.push(Decodable::consensus_decode(&mut d)?); }
RECURSIVE VecDecodeLoop(_, _, _, _, _)
VecDecodeStep(elem, r, len, i, ret) ==
    IF ~r.ok THEN r
    ELSE VecDecodeLoop(elem, Pushed(elem, r.d, LimbsToInt(as_usize(len)), Len(ret)),
                       len, i + 1, Append(ret, r.val))

VecDecodeLoop(elem, d, len, i, ret) ==
    IF ~LimbsLt(IntToLimbs(i, 4), len) THEN DecOk(d, ret)
    ELSE VecDecodeStep(elem, elem_consensus_decode(elem, d), len, i, ret)

\* the slip of reporting the element count as `requested`
VecBody_count(elem, d, len, byte_size) ==
    IF ~byte_size.some THEN DecErr(d, ParseFailed("Invalid length"))
    ELSE IF LimbsLt(IntToLimbs(MAX_VEC_SIZE, UsizeLimbs), byte_size.v)
    THEN DecErr(Logged(d, <<"check", byte_size.v>>),
                OversizedVectorAllocation(as_usize(len), MAX_VEC_SIZE))
    ELSE VecDecodeLoop(elem,
             Logged(Logged(d, <<"check", byte_size.v>>),
                    <<"alloc", wrapping_mul(as_usize(len), size_of(elem)).v>>),
             len, 0, <<>>)

\* the MAX_VEC_SIZE check, Vec::with_capacity(len as usize) and the loop
VecBody(elem, d, len, byte_size) ==
    IF ~byte_size.some THEN DecErr(d, ParseFailed("Invalid length"))
    ELSE IF LimbsLt(IntToLimbs(MAX_VEC_SIZE, UsizeLimbs), byte_size.v)
    THEN DecErr(Logged(d, <<"check", byte_size.v>>),
                OversizedVectorAllocation(byte_size.v, MAX_VEC_SIZE))
    ELSE VecDecodeLoop(elem,
             Logged(Logged(d, <<"check", byte_size.v>>),
                    <<"alloc", wrapping_mul(as_usize(len), size_of(elem)).v>>),
             len, 0, <<>>)

\* let byte_size = (len as usize).checked_mul(mem::size_of::<$type>())
VecWithLen(elem, l) ==
    IF ~l.ok THEN l
    ELSE VecBody(elem, l.d, l.val, checked_mul(as_usize(l.val), size_of(elem)))

impl_vec_consensus_decode(elem, d) == VecWithLen(elem, VarInt_consensus_decode(d))

(***************************************************************************)
(* Strings; a value is the buffer of the string's UTF-8 bytes.             *)
(***************************************************************************)
\* One byte of UTF-8 validation.  A state is <<need, lo, hi>>: need
\* continuation bytes are still due and the next one lies in lo..hi;
\* need = -1 is an invalid sequence.
Utf8Start == <<0, 0, 0>>
Utf8Bad == <<-1, 0, 0>>

Utf8Step(st, b) ==
    IF st[1] = -1 THEN Utf8Bad
    ELSE IF st[1] = 0
    THEN IF b < 128 THEN Utf8Start
         ELSE IF b >= 194 /\ b <= 223 THEN <<1, 128, 191>>
         ELSE IF b = 224 THEN <<2, 160, 191>>
         ELSE IF b = 237 THEN <<2, 128, 159>>
         ELSE IF b >= 225 /\ b <= 239 THEN <<2, 128, 191>>
         ELSE IF b = 240 THEN <<3, 144, 191>>
         ELSE IF b >= 241 /\ b <= 243 THEN <<3, 128, 191>>
         ELSE IF b = 244 THEN <<3, 128, 143>>
         ELSE Utf8Bad
    ELSE IF b >= st[2] /\ b <= st[3]
         THEN (IF st[1] = 1 THEN Utf8Start ELSE <<st[1] - 1, 128, 191>>)
         ELSE Utf8Bad

RECURSIVE Utf8Run(_, _, _)
Utf8Run(st, b, n) ==
    IF n = 0 \/ st = Utf8Bad THEN st
    ELSE IF st = Utf8Start /\ b < 128 THEN Utf8Start
    ELSE Utf8Run(Utf8Step(st, b), b, n - 1)

RECURSIVE Utf8Scan(_, _)
Utf8Scan(st, buf) ==
    IF buf = <<>> THEN st
    ELSE Utf8Scan(Utf8Run(st, buf[1][1], buf[1][2]), Tail(buf))

\* the slip of taking the bytes as a string unchecked
from_utf8_unchecked(bytes) == TRUE

\* String::from_utf8(bytes).is_ok()
from_utf8_ok(bytes) == Utf8Scan(Utf8Start, bytes) = Utf8Start

String_consensus_encode(s, v) ==
    ThenSlice(VarInt_consensus_encode(s, IntToLimbs(BLen(v), 4)), v)

\* String::from_utf8(..).map_err(|_| ParseFailed("String was not valid UTF-8"))
FromUtf8(r) ==
    IF ~r.ok THEN r
    ELSE IF from_utf8_ok(r.val) THEN r
    ELSE DecErr(r.d, ParseFailed("String was not valid UTF-8"))

String_consensus_decode(d) == FromUtf8(VecU8_consensus_decode(d))

(***************************************************************************)
(* network::message::CommandString; a value is the list of the string's    *)
(* UTF-8 bytes.                                                            *)
(***************************************************************************)
\* `u as char` pushed onto a String: the UTF-8 bytes of U+0000..U+00FF
CharBytes(u) == IF u < 128 THEN <<u>> ELSE <<192 + (u \div 64), 128 + (u % 64)>>

\* rawbytes.iter().filter_map(|&u| if u > 0 { Some(u as char) } else { None })
RECURSIVE CommandChars(_)
\* the slip of keeping the padding: every byte becomes a char
CommandChars_keeping(raw) ==
    IF raw = <<>> THEN <<>> ELSE CharBytes(raw[1]) \o CommandChars(Tail(raw))

CommandChars(raw) ==
    IF raw = <<>> THEN <<>>
    ELSE (IF raw[1] > 0 THEN CharBytes(raw[1]) ELSE <<>>) \o CommandChars(Tail(raw))

\* the slip of copying the first 12 bytes of a longer command
CommandString_consensus_encode_truncating(s, v) ==
    array_consensus_encode(s, [x \in 1..12 |-> IF x <= Len(v) THEN v[x] ELSE 0])

CommandString_consensus_encode(s, v) ==
    IF Len(v) > 12 THEN EncErr(s, UnrecognizedNetworkCommand(v))
    ELSE array_consensus_encode(s, [x \in 1..12 |-> IF x <= Len(v) THEN v[x] ELSE 0])

\* the capacity of the String the chars are collected into when it holds n
\* bytes: empty at first, then 8 bytes at least and doubled when full
RECURSIVE StringCapacity(_, _)
StringCapacity(c, n) ==
    IF n <= c THEN c ELSE StringCapacity(IF 2 * c < 8 THEN 8 ELSE 2 * c, n)

\* the push of a char of n bytes onto a String of len bytes: a String too
\* small for it asks for a buffer of the grown capacity
StringPushed(d, len, n) ==
    IF len + n > StringCapacity(0, len)
    THEN Logged(d, <<"alloc", IntToLimbs(StringCapacity(0, len + n), UsizeLimbs)>>)
    ELSE d

\* the bytes a raw byte adds to the String: none for a zero byte
CharLen(u) == IF u > 0 THEN Len(CharBytes(u)) ELSE 0

\* iter::FromIterator::from_iter(..): the chars pushed one by one
RECURSIVE CollectLoop(_, _, _, _)
CollectLoop(d, raw, i, len) ==
    IF i > Len(raw) THEN d
    ELSE CollectLoop(StringPushed(d, len, CharLen(raw[i])), raw, i + 1,
                     len + CharLen(raw[i]))

FromRawBytes(r) ==
    IF r.ok THEN DecOk(CollectLoop(r.d, r.val, 1, 0), CommandChars(r.val)) ELSE r
CommandString_consensus_decode(d) == FromRawBytes(array_consensus_decode(d, 12))

(***************************************************************************)
(* [u16; 8]; a value is the list of its eight u16.                         *)
(***************************************************************************)
\* for c in self.iter() { c.consensus_encode(&mut s)?; } Ok(16)
RECURSIVE U16x8EncodeLoop(_, _, _)
U16x8EncodeStep(r, v, i) == IF ~r.ok THEN r ELSE U16x8EncodeLoop(r.s, v, i + 1)

U16x8EncodeLoop(s, v, i) ==
    IF i > 8 THEN EncOk(s, 16)
    ELSE U16x8EncodeStep(int_consensus_encode(s, v[i], 2), v, i)

\* the slip of returning the number of elements
U16x8_consensus_encode_elems(s, v) == Emitted(U16x8EncodeLoop(s, v, 1), 8)

U16x8_consensus_encode(s, v) == U16x8EncodeLoop(s, v, 1)

\* for i in 0..8 { res[i] = Decodable::consensus_decode(&mut d)?; } Ok(res)
RECURSIVE U16x8DecodeLoop(_, _, _)
U16x8DecodeStep(r, i, res) ==
    IF ~r.ok THEN r ELSE U16x8DecodeLoop(r.d, i + 1, Append(res, r.val))

U16x8DecodeLoop(d, i, res) ==
    IF i > 8 THEN DecOk(d, res)
    ELSE U16x8DecodeStep(int_consensus_decode(d, 2), i, res)

U16x8_consensus_decode(d) == U16x8DecodeLoop(d, 1, <<>>)

(***************************************************************************)
(* network::constants::ServiceFlags (a value is its u64) and               *)
(* network::message_network::RejectReason (a value is its discriminant).   *)
(***************************************************************************)
ServiceFlags_consensus_encode(s, v) == int_consensus_encode(s, v, 8)
ServiceFlags_consensus_decode(d) == int_consensus_decode(d, 8)

RejectCodes == {1, 16, 17, 18, 64, 65, 66, 67}

\* e.write_all(&[*self as u8])?; Ok(1)
RejectReason_consensus_encode(s, v) == Emitted(write_all(s, BRep(v, 1)), 1)

\* match d.read_u8()? { 0x01 => .., _ => Err(ParseFailed("unknown reject code")) }
RejectMatch(r) ==
    IF ~r.ok THEN r
    ELSE IF r.val \in RejectCodes THEN r
    ELSE DecErr(r.d, ParseFailed("unknown reject code"))

RejectReason_consensus_decode(d) == RejectMatch(read_u8(d))

(***************************************************************************)
(* Encodable / Decodable by type.  A type is [k, n]: k names it and n is   *)
(* the size of an array type (0 otherwise).                                *)
(***************************************************************************)
T(k) == [k |-> k, n |-> 0]
ArrayT(n) == [k |-> "array", n |-> n]

IntWidth(k) ==
    IF k \in {"u16", "i16"} THEN 2 ELSE IF k \in {"u32", "i32"} THEN 4 ELSE 8

\* impl_consensus_encoding!(VersionMessage, version, services, timestamp,
\* receiver, sender, nonce, user_agent, start_height, relay)
VersionMessageFields ==
    <<T("u32"), T("ServiceFlags"), T("i64"), T("Address"), T("Address"), T("u64"),
      T("String"), T("i32"), T("bool")>>

\* network::address::Address as a record of the composition rule:
\* services, address, port
AddressFields == <<T("ServiceFlags"), T("U16x8"), T("u16")>>

\* the record of three fields {u32, [u8; 4], Vec<u8>}
TripleFields == <<T("u32"), ArrayT(4), T("VecU8")>>

RecordKinds == {"VersionMessage", "Address", "Triple"}

\* $($field),+ of a record type, in declared order
Fields(t) ==
    CASE t.k = "VersionMessage" -> VersionMessageFields
      [] t.k = "Address" -> AddressFields
      [] t.k = "Triple" -> TripleFields

RECURSIVE consensus_encode(_, _, _)
RECURSIVE consensus_decode(_, _)

\* let mut len = 0; $(len += self.$field.consensus_encode(&mut s)?;)+ Ok(len)
RECURSIVE RecordEncodeLoop(_, _, _, _, _)
RecordEncodeStep(fs, r, v, i, len) ==
    IF ~r.ok THEN r ELSE RecordEncodeLoop(fs, r.s, v, i + 1, len + r.n)

\* the slip `len = ` for `len += `
RecordEncodeLoop_last(fs, s, v, i, len) ==
    IF i > Len(fs) THEN EncOk(s, len)
    ELSE RecordEncodeStep(fs, consensus_encode(fs[i], s, v[i]), v, i, 0)

RecordEncodeLoop(fs, s, v, i, len) ==
    IF i > Len(fs) THEN EncOk(s, len)
    ELSE RecordEncodeStep(fs, consensus_encode(fs[i], s, v[i]), v, i, len)

impl_consensus_encoding_encode(t, s, v) == RecordEncodeLoop(Fields(t), s, v, 1, 0)

\* Ok($thing { $($field: Decodable::consensus_decode(&mut d)?),+ })
RECURSIVE RecordDecodeLoop(_, _, _, _)
\* the slip of going on to the next field after an error
RecordDecodeStep_skipping(fs, r, i, ret) ==
    RecordDecodeLoop(fs, r.d, i + 1, Append(ret, r.val))

RecordDecodeStep(fs, r, i, ret) ==
    IF ~r.ok THEN r ELSE RecordDecodeLoop(fs, r.d, i + 1, Append(ret, r.val))

RecordDecodeLoop(fs, d, i, ret) ==
    IF i > Len(fs) THEN DecOk(d, ret)
    ELSE RecordDecodeStep(fs, consensus_decode(fs[i], d), i, ret)

impl_consensus_encoding_decode(t, d) == RecordDecodeLoop(Fields(t), d, 1, <<>>)

consensus_encode(t, s, v) ==
    CASE t.k = "u8" -> u8_consensus_encode(s, v)
      [] t.k = "i8" -> i8_consensus_encode(s, v)
      [] t.k \in {"u16", "u32", "u64", "i16", "i32", "i64"} ->
             int_consensus_encode(s, v, IntWidth(t.k))
      [] t.k = "VarInt" -> VarInt_consensus_encode(s, v)
      [] t.k = "bool" -> bool_consensus_encode(s, v)
      [] t.k = "array" -> array_consensus_encode(s, v)
      [] t.k = "VecU8" -> VecU8_consensus_encode(s, v)
      [] t.k = "VecU64" -> impl_vec_consensus_encode("u64", s, v)
      [] t.k = "VecVecU8" -> impl_vec_consensus_encode("VecU8", s, v)
      [] t.k = "String" -> String_consensus_encode(s, v)
      [] t.k = "CommandString" -> CommandString_consensus_encode(s, v)
      [] t.k = "U16x8" -> U16x8_consensus_encode(s, v)
      [] t.k = "ServiceFlags" -> ServiceFlags_consensus_encode(s, v)
      [] t.k = "RejectReason" -> RejectReason_consensus_encode(s, v)
      [] t.k \in RecordKinds -> impl_consensus_encoding_encode(t, s, v)

consensus_decode(t, d) ==
    CASE t.k = "u8" -> u8_consensus_decode(d)
      [] t.k = "i8" -> i8_consensus_decode(d)
      [] t.k \in {"u16", "u32", "u64", "i16", "i32", "i64"} ->
             int_consensus_decode(d, IntWidth(t.k))
      [] t.k = "VarInt" -> VarInt_consensus_decode(d)
      [] t.k = "bool" -> bool_consensus_decode(d)
      [] t.k = "array" -> array_consensus_decode(d, t.n)
      [] t.k = "VecU8" -> VecU8_consensus_decode(d)
      [] t.k = "VecU64" -> impl_vec_consensus_decode("u64", d)
      [] t.k = "VecVecU8" -> impl_vec_consensus_decode("VecU8", d)
      [] t.k = "String" -> String_consensus_decode(d)
      [] t.k = "CommandString" -> CommandString_consensus_decode(d)
      [] t.k = "U16x8" -> U16x8_consensus_decode(d)
      [] t.k = "ServiceFlags" -> ServiceFlags_consensus_decode(d)
      [] t.k = "RejectReason" -> RejectReason_consensus_decode(d)
      [] t.k \in RecordKinds -> impl_consensus_encoding_decode(t, d)

(***************************************************************************)
(* Entry points.                                                           *)
(***************************************************************************)
\* data.consensus_encode(&mut encoder).unwrap(); encoder.into_inner()
Unwrapped(r) == [panicked |-> ~r.ok, buf |-> r.s.buf, n |-> r.n, err |-> r.err]
serialize(t, v) == Unwrapped(consensus_encode(t, NewCursor, v))

Outcome(ok, v, e, consumed, d) ==
    [ok |-> ok, val |-> v, err |-> e, consumed |-> consumed, pos |-> d.pos,
     log |-> d.log]

\* the slip of reporting the length of the input as consumed
WithConsumed_all(r) ==
    IF r.ok THEN Outcome(TRUE, r.val, NoError, BLen(r.d.data), r.d)
    ELSE Outcome(FALSE, 0, r.err, -1, r.d)

\* let consumed = decoder.position() as usize; Ok((rv, consumed))
WithConsumed(r) ==
    IF r.ok THEN Outcome(TRUE, r.val, NoError, r.d.pos, r.d)
    ELSE Outcome(FALSE, 0, r.err, -1, r.d)

deserialize_partial(t, data) == WithConsumed(consensus_decode(t, NewSource(data)))

\* the slip of leaving the consumed-length test out
AllConsumed_lenient(r, data) == r

\* the slip of mapping every decoder error to the parse error
AllConsumed_masking(r, data) ==
    IF r.ok /\ r.consumed = BLen(data) THEN r
    ELSE [r EXCEPT !.ok = FALSE, !.val = 0, !.consumed = -1,
                   !.err = ParseFailed(
                       "data not consumed entirely when explicitly deserializing")]

\* if consumed == data.len() { Ok(rv) } else { Err(ParseFailed(..)) }
AllConsumed(r, data) ==
    IF ~r.ok THEN r
    ELSE IF r.consumed = BLen(data) THEN r
    ELSE [r EXCEPT !.ok = FALSE, !.val = 0, !.consumed = -1,
                   !.err = ParseFailed(
                       "data not consumed entirely when explicitly deserializing")]

deserialize(t, data) == AllConsumed(deserialize_partial(t, data), data)

(***************************************************************************)
(* The values and the inputs the callers hand to the entry points.         *)
(***************************************************************************)
RECURSIVE SeqsUpTo(_, _)
SeqsUpTo(S, n) ==
    IF n = 0 THEN {<<>>}
    ELSE LET shorter == SeqsUpTo(S, n - 1)
         IN  shorter \cup {Append(q, x) : q \in {r \in shorter : Len(r) = n - 1}, x \in S}

LimbSamples == {0, 1, 252, 253, 65535}
U16Samples == {<<a>> : a \in LimbSamples \cup {256, 4660, 32768}}
U32Samples == {<<a, b>> : a \in LimbSamples \cup {48879}, b \in LimbSamples \cup {57005}}
U64Samples == {<<a, b, c, e>> : a \in LimbSamples, b \in LimbSamples,
                                c \in {0, 1, 65535}, e \in {0, 1, 8192, 65535}}

SomeBytes == {0, 1, 97, 255}
\* long buffers: around the VarInt classes and around MAX_VEC_SIZE
LongLens == {252, 253, 65535, 65536, MAX_VEC_SIZE - 1, MAX_VEC_SIZE, MAX_VEC_SIZE + 1}

ArraySamples(n) ==
    {[i \in 1..n |-> c] : c \in {0, 255}} \cup
    {[i \in 1..n |-> i], [i \in 1..n |-> 256 - i], [i \in 1..n |-> IF i = n THEN 1 ELSE 0]}

VecU8Samples ==
    {BFromSeq(q) : q \in SeqsUpTo(SomeBytes, MaxLen)} \cup
    {BRep(b, n) : b \in {0, 97}, n \in LongLens} \cup
    {BCat(BRep(1, 1), BRep(0, MAX_VEC_SIZE))}

\* strings: ASCII, U+00E9 (C3 A9), U+20AC (E2 82 AC), and long runs of 'a'
StringSamples ==
    {BFromSeq(q) : q \in SeqsUpTo({0, 97, 122}, MaxLen)} \cup
    {BFromSeq(<<195, 169>>), BFromSeq(<<97, 195, 169>>), BFromSeq(<<226, 130, 172>>)} \cup
    {BRep(97, n) : n \in LongLens}

VecU64Samples ==
    SeqsUpTo({<<0, 0, 0, 0>>, <<1, 0, 0, 0>>, <<513, 1027, 1541, 2055>>}, MaxLen) \cup
    {[i \in 1..12 |-> <<i, 0, 0, 65535>>]}

VecVecU8Samples ==
    SeqsUpTo({<<>>, BFromSeq(<<1>>), BFromSeq(<<0, 0>>), BRep(97, 253)}, MaxLen) \cup
    {[i \in 1..12 |-> BRep(i, 1)]} \cup
    {<<BRep(0, MAX_VEC_SIZE), BRep(7, 1)>>, <<BRep(7, 1), BRep(0, MAX_VEC_SIZE + 1)>>}

CommandSamples ==
    {<<>>, <<118, 101, 114>>, <<118, 101, 114, 115, 105, 111, 110>>,
     [i \in 1..12 |-> 96 + i], [i \in 1..13 |-> 96 + i], <<195, 169>>,
     <<97, 0, 98>>, <<97, 0>>}

U16x8Samples ==
    {[i \in 1..8 |-> <<0>>], [i \in 1..8 |-> <<257 * i>>], [i \in 1..8 |-> <<65535>>]}

ServiceFlagsSamples == {<<0, 0, 0, 0>>, <<1, 0, 0, 0>>, <<1037, 0, 0, 0>>, <<0, 0, 0, 32768>>}

AddressSamples ==
    {<<<<1, 0, 0, 0>>, [i \in 1..8 |-> <<0>>], <<8333>>>>,
     <<<<1037, 0, 0, 0>>, [i \in 1..8 |-> <<257 * i>>], <<18333>>>>}

\* {u32, [u8; 4], Vec<u8>}
TripleSamples ==
    {<<a, b, c>> : a \in {<<1, 0>>, <<48879, 57005>>},
                   b \in {<<0, 0, 0, 0>>, <<1, 2, 3, 4>>},
                   c \in {<<>>, BFromSeq(<<7>>), BRep(97, 253), BRep(0, MAX_VEC_SIZE + 1)}}

\* version 70001 = 0x11171, a timestamp, two addresses, a nonce, a user agent,
\* a start height and the relay flag
VersionMessageSamples ==
    {<<<<4465, 1>>, f, <<52719, 24211, 0, 0>>, a, a, <<1, 2, 3, 4>>, u, <<0, 1>>, r>> :
         f \in {<<0, 0, 0, 0>>, <<1037, 0, 0, 0>>}, a \in AddressSamples,
         u \in {<<>>, BFromSeq(<<47, 97, 47>>), BRep(97, MAX_VEC_SIZE + 1)},
         r \in BOOLEAN}

ScalarKinds == {"u8", "u16", "u32", "u64", "i8", "i16", "i32", "i64", "bool", "VarInt"}
SeqKinds == {"VecU8", "VecU64", "VecVecU8", "String"}
Types ==
    {T(k) : k \in ScalarKinds \cup SeqKinds \cup RecordKinds \cup
                  {"CommandString", "U16x8", "ServiceFlags", "RejectReason"}} \cup
    {ArrayT(n) : n \in ArraySizes}

Values(t) ==
    CASE t.k = "u8" -> {0, 1, 127, 128, 252, 253, 254, 255}
      [] t.k = "i8" -> {-128, -127, -1, 0, 1, 127}
      [] t.k \in {"u16", "i16"} -> U16Samples
      [] t.k \in {"u32", "i32"} -> U32Samples
      [] t.k \in {"u64", "i64", "VarInt"} -> U64Samples
      [] t.k = "bool" -> BOOLEAN
      [] t.k = "array" -> ArraySamples(t.n)
      [] t.k = "VecU8" -> VecU8Samples
      [] t.k = "VecU64" -> VecU64Samples
      [] t.k = "VecVecU8" -> VecVecU8Samples
      [] t.k = "String" -> StringSamples
      [] t.k = "CommandString" -> CommandSamples
      [] t.k = "U16x8" -> U16x8Samples
      [] t.k = "ServiceFlags" -> ServiceFlagsSamples
      [] t.k = "RejectReason" -> RejectCodes
      [] t.k = "Address" -> AddressSamples
      [] t.k = "Triple" -> TripleSamples
      [] t.k = "VersionMessage" -> VersionMessageSamples

\* sinks a caller hands to consensus_encode: growable, or full after a few bytes
SinkCaps == {-1, 0, 1, 5, 9, 20}

\* bytes that follow a serialized value in a longer buffer
Trailers == {BFromSeq(q) : q \in SeqsUpTo({0, 1, 255}, MaxTrail) \ {<<>>}}

\* the bytes a peer sends for a 16-bit limb list, low byte first
RECURSIVE WireBytes(_)
WireBytes(x) ==
    IF x = <<>> THEN <<>> ELSE <<x[1] % 256, x[1] \div 256>> \o WireBytes(Tail(x))

RawBytes == {0, 1, 2, 97, 128, 252, 253, 254, 255}
RawShort == {BFromSeq(q) : q \in SeqsUpTo(RawBytes, MaxLen + 1)}

\* a marker byte and a payload: minimal and non-minimal VarInts
RawVarInts ==
    {BFromSeq(<<253>> \o WireBytes(x)) : x \in U16Samples} \cup
    {BFromSeq(<<254>> \o WireBytes(x)) : x \in U32Samples} \cup
    {BFromSeq(<<255>> \o WireBytes(x)) : x \in U64Samples}

\* element counts a peer can declare, as u64
Counts ==
    {<<0, 0, 0, 0>>, <<1, 0, 0, 0>>, <<2, 0, 0, 0>>, <<252, 0, 0, 0>>, <<253, 0, 0, 0>>,
     IntToLimbs(166666, 4), IntToLimbs(166667, 4),
     IntToLimbs(500000, 4), IntToLimbs(500001, 4),
     IntToLimbs(MAX_VEC_SIZE, 4), IntToLimbs(MAX_VEC_SIZE + 1, 4),
     <<65535, 65535, 0, 0>>, <<0, 0, 1, 0>>, <<1, 0, 1, 0>>,
     <<65535, 65535, 65535, 8191>>, <<0, 0, 0, 8192>>,
     <<43690, 43690, 43690, 2730>>, <<43691, 43690, 43690, 2730>>,
     <<65535, 65535, 65535, 65535>>}

\* the minimal VarInt a peer sends for a count
Prefix(c) ==
    IF c[4] # 0 \/ c[3] # 0 THEN <<255>> \o WireBytes(c)
    ELSE IF c[2] # 0 THEN <<254>> \o WireBytes(<<c[1], c[2]>>)
    ELSE IF c[1] > 252 THEN <<253>> \o WireBytes(<<c[1]>>)
    ELSE <<c[1]>>

\* what follows the count: nothing, a few bytes, or as many zero bytes as declared
Bodies(c) ==
    {BFromSeq(q) : q \in SeqsUpTo({0, 1}, MaxLen)} \cup
    {BRep(0, 8 * n) : n \in 1..(MaxLen + 1)} \cup
    (IF FitsInt(c) /\ LimbsToInt(c) <= MAX_VEC_SIZE + 1
     THEN {BRep(0, LimbsToInt(c)), BRep(97, LimbsToInt(c))} ELSE {})

RawSeqs == UNION {{BCat(BFromSeq(Prefix(c)), b) : b \in Bodies(c)} : c \in Counts}

\* length-prefixed bytes of well- and ill-formed UTF-8: two-, three- and
\* four-byte characters, a lone continuation byte, a cut-off character, an
\* overlong form, a surrogate and a code point above U+10FFFF
RawStrings ==
    {BFromSeq(<<Len(q)>> \o q) :
         q \in {<<195, 169>>, <<97, 226, 130, 172>>, <<240, 159, 152, 128>>,
                <<128>>, <<97, 195>>, <<195, 40>>, <<192, 128>>, <<224, 128, 128>>,
                <<237, 160, 128>>, <<244, 144, 128, 128>>, <<255>>}}

\* records with short fields, and what may follow a cut of their encoding:
\* nothing, a non-minimal length, a length above the ceiling, a string that
\* is not UTF-8
ShortRecords(t) ==
    CASE t.k = "VersionMessage" ->
             {v \in VersionMessageSamples :
                  v[2] = <<1037, 0, 0, 0>> /\ v[7] = BFromSeq(<<47, 97, 47>>) /\ v[9]}
      [] t.k = "Address" -> AddressSamples
      [] t.k = "Triple" -> {v \in TripleSamples : BLen(v[3]) <= 1}

BadTails ==
    {<<>>, BFromSeq(<<253, 1, 0, 9, 9>>), BFromSeq(<<254, 1, 9, 61, 0, 1, 2>>),
     BFromSeq(<<1, 255, 0, 0, 0, 0, 1>>)}

\* the encodings of the short records, cut after n bytes and continued
RawRecords(t) ==
    {BCat(BTake(b, n), tl) : b \in {serialize(t, v).buf : v \in ShortRecords(t)},
                             n \in 0..89, tl \in BadTails}

RawInputs(t) ==
    CASE t.k = "VarInt" -> RawShort \cup RawVarInts
      [] t.k \in RecordKinds -> RawShort \cup RawRecords(t)
      [] t.k = "VecU8" -> RawShort \cup RawSeqs
      [] t.k = "String" -> RawShort \cup RawSeqs \cup RawStrings
      [] t.k \in {"VecU64", "VecVecU8"} ->
             RawShort \cup {b \in RawSeqs : BLen(b) <= 64}
      [] t.k = "array" -> RawShort \cup {BFromSeq(v) : v \in ArraySamples(t.n)}
      [] t.k = "CommandString" ->
             RawShort \cup {BFromSeq(v) : v \in ArraySamples(12)} \cup
             {BFromSeq([i \in 1..12 |-> IF i <= Len(q) THEN q[i] ELSE 0]) :
                  q \in {<<97, 0, 98>>, <<0, 97>>, <<233>>, <<118, 101, 114>>}}
      [] OTHER -> RawShort \cup {BFromSeq(WireBytes(x)) : x \in U64Samples}

(***************************************************************************)
(* network::constants::Network; a u32 is two 16-bit limbs, low limb first. *)
(***************************************************************************)
Networks == {"Bitcoin", "Testnet", "Regtest"}

Some(v) == [some |-> TRUE, v |-> v]
NoNetwork == [some |-> FALSE, v |-> ""]

\* Network::magic: 0xD9B4BEF9, 0x0709110B, 0xDAB5BFFA
magic(n) ==
    CASE n = "Bitcoin" -> <<48889, 55732>>
      [] n = "Testnet" -> <<4363, 1801>>
      [] n = "Regtest" -> <<49146, 55989>>

\* the slip of swapping two arms of the match
from_magic_swapped(m) ==
    CASE m = <<48889, 55732>> -> Some("Bitcoin")
      [] m = <<4363, 1801>> -> Some("Regtest")
      [] m = <<49146, 55989>> -> Some("Testnet")
      [] OTHER -> NoNetwork

\* Network::from_magic
from_magic(m) ==
    CASE m = <<48889, 55732>> -> Some("Bitcoin")
      [] m = <<4363, 1801>> -> Some("Testnet")
      [] m = <<49146, 55989>> -> Some("Regtest")
      [] OTHER -> NoNetwork

\* the magics, their neighbours, their byte-swapped forms and other u32
MagicInputs ==
    U32Samples \cup {magic(n) : n \in Networks} \cup
    {<<48888, 55732>>, <<48890, 55732>>, <<48889, 55733>>, <<4363, 1800>>,
     <<49146, 55988>>, <<46297, 63934>>, <<2311, 2833>>, <<55732, 48889>>}

(***************************************************************************)
(* network::constants::ServiceFlags(u64): four 16-bit limbs, low limb      *)
(* first.  Strings are the text written to the formatter.                  *)
(***************************************************************************)
\* a | b and a ^ b on n-bit numbers
RECURSIVE BitOr(_, _, _)
BitOr(a, b, n) ==
    IF n = 0 THEN 0
    ELSE (IF a % 2 = 1 \/ b % 2 = 1 THEN 1 ELSE 0) + 2 * BitOr(a \div 2, b \div 2, n - 1)

RECURSIVE BitXor(_, _, _)
BitXor(a, b, n) ==
    IF n = 0 THEN 0 ELSE ((a + b) % 2) + 2 * BitXor(a \div 2, b \div 2, n - 1)

\* ServiceFlags(1 << n)
Flag(n) == [i \in 1..4 |-> IF i = (n \div 16) + 1 THEN 2 ^ (n % 16) ELSE 0]

NONE == Flag(64)
NETWORK == Flag(0)
GETUTXO == Flag(1)
BLOOM == Flag(2)
\* WITNESS, a reserved word of TLA+
WITNESS_FLAG == Flag(2)
COMPACT_FILTERS == Flag(6)
NETWORK_LIMITED == Flag(10)

\* self.0 |= other.0; *self
ServiceFlags_add(self, other) ==
    [self |-> [i \in 1..4 |-> BitOr(self[i], other[i], 16)],
     ret |-> [i \in 1..4 |-> BitOr(self[i], other[i], 16)]]

\* self.0 ^= other.0; *self
ServiceFlags_remove(self, other) ==
    [self |-> [i \in 1..4 |-> BitXor(self[i], other[i], 16)],
     ret |-> [i \in 1..4 |-> BitXor(self[i], other[i], 16)]]

\* (self.0 | flags.0) == self.0
ServiceFlags_has(self, flags) == [i \in 1..4 |-> BitOr(self[i], flags[i], 16)] = self

\* {:x} of a u64: lower-case hexadecimal without leading zeros
HexChar(d) == SubSeq("0123456789abcdef", d + 1, d + 1)

RECURSIVE HexOf(_, _)
HexOf(x, n) ==
    IF n = 0 THEN "" ELSE HexOf(x \div 16, n - 1) \o HexChar(x % 16)

RECURSIVE Unpadded(_)
Unpadded(h) ==
    IF Len(h) > 1 /\ SubSeq(h, 1, 1) = "0" THEN Unpadded(SubSeq(h, 2, Len(h))) ELSE h

LowerHex(v) ==
    Unpadded(HexOf(v[4], 4) \o HexOf(v[3], 4) \o HexOf(v[2], 4) \o HexOf(v[1], 4))

\* the flags that Display tries, in the order of its write_flag! lines
NamedFlags ==
    <<<<"NETWORK", NETWORK>>, <<"GETUTXO", GETUTXO>>, <<"BLOOM", BLOOM>>,
      <<"WITNESS", WITNESS_FLAG>>, <<"COMPACT_FILTERS", COMPACT_FILTERS>>,
      <<"NETWORK_LIMITED", NETWORK_LIMITED>>>>

\* write_flag!($f) on the formatter's text, the flags left and `first`
write_flag(st, name, f) ==
    IF ServiceFlags_has(st.flags, f)
    THEN [out |-> st.out \o (IF st.first THEN "" ELSE "|") \o name,
          flags |-> ServiceFlags_remove(st.flags, f).self,
          first |-> FALSE]
    ELSE st

RECURSIVE WriteFlags(_, _)
WriteFlags(st, i) ==
    IF i > Len(NamedFlags) THEN st
    ELSE WriteFlags(write_flag(st, NamedFlags[i][1], NamedFlags[i][2]), i + 1)

\* if flags != NONE { "|" unless first; "0x{:x}" }, then ")"
Unknown(st) ==
    IF st.flags # NONE
    THEN st.out \o (IF st.first THEN "" ELSE "|") \o "0x" \o LowerHex(st.flags) \o ")"
    ELSE st.out \o ")"

\* impl fmt::Display for ServiceFlags
ServiceFlags_to_string(self) ==
    IF self = NONE THEN "ServiceFlags(NONE)"
    ELSE Unknown(WriteFlags([out |-> "ServicFlags(", flags |-> self, first |-> TRUE], 1))

\* flag words: none, each named flag, unions of them, unnamed bits, all bits
FlagInputs ==
    {NONE, NETWORK, GETUTXO, BLOOM, WITNESS_FLAG, COMPACT_FILTERS, NETWORK_LIMITED,
     <<3, 0, 0, 0>>, <<5, 0, 0, 0>>, <<1093, 0, 0, 0>>, <<1095, 0, 0, 0>>,
     <<240, 0, 0, 0>>, <<244, 0, 0, 0>>, <<8, 0, 0, 0>>, <<0, 1, 0, 0>>,
     <<0, 0, 0, 32768>>, <<1, 0, 0, 32768>>, <<65535, 65535, 65535, 65535>>}

(***************************************************************************)
(* util::amount::Amount(u64) and SignedAmount(i64), derived by             *)
(* SatoshiArithmetic.  A u64 or i64 is its eight bytes, low byte first,    *)
(* an i64 in two's complement; the arithmetic is done on the bytes.        *)
(***************************************************************************)
AmountKinds == {"Amount", "SignedAmount"}
NoAmount == [some |-> FALSE, v |-> <<>>]

\* a + b + carry, one byte longer than a: the last byte is the carry out
RECURSIVE AddBytes(_, _, _, _)
AddBytes(a, b, i, carry) ==
    IF i > Len(a) THEN <<carry>>
    ELSE <<(a[i] + b[i] + carry) % 256>> \o
         AddBytes(a, b, i + 1, (a[i] + b[i] + carry) \div 256)

NotBytes(a) == [i \in 1..Len(a) |-> 255 - a[i]]
ZeroBytes(n) == [i \in 1..n |-> 0]
Negative(a) == a[Len(a)] >= 128
\* the two's complement negation, of the same width
NegBytes(a) == SubSeq(AddBytes(NotBytes(a), ZeroBytes(Len(a)), 1, 1), 1, Len(a))
\* a - b modulo 256^n
SubBytes(a, b) == SubSeq(AddBytes(a, NotBytes(b), 1, 1), 1, Len(a))

\* a < b as unsigned numbers of the same width
RECURSIVE BytesLt(_, _, _)
BytesLt(a, b, i) ==
    IF i = 0 THEN FALSE ELSE IF a[i] # b[i] THEN a[i] < b[i] ELSE BytesLt(a, b, i - 1)

\* zero- or sign-extension to n bytes
ZeroExtend(a, n) == [i \in 1..n |-> IF i <= Len(a) THEN a[i] ELSE 0]
SignExtend(a, n) ==
    [i \in 1..n |-> IF i <= Len(a) THEN a[i] ELSE IF Negative(a) THEN 255 ELSE 0]

\* a * d for one byte d, shifted up by k bytes, modulo 256^Len(a)
RECURSIVE ScaleBytes(_, _, _, _, _)
ScaleBytes(a, d, k, i, carry) ==
    IF i > Len(a) THEN <<>>
    ELSE IF i <= k THEN <<0>> \o ScaleBytes(a, d, k, i + 1, 0)
    ELSE <<(a[i - k] * d + carry) % 256>> \o
         ScaleBytes(a, d, k, i + 1, (a[i - k] * d + carry) \div 256)

\* the full-width product a * b modulo 256^Len(a), byte by byte of b
RECURSIVE MulBytes(_, _, _)
MulBytes(a, b, i) ==
    IF i > Len(b) THEN ZeroBytes(Len(a))
    ELSE SubSeq(AddBytes(ScaleBytes(a, b[i], i - 1, 1, 0), MulBytes(a, b, i + 1), 1, 0),
                1, Len(a))

\* bit i (from 0) of a byte list
BitOf(a, i) == (a[(i \div 8) + 1] \div (2 ^ (i % 8))) % 2

\* restoring division of unsigned a by b # 0, bit by bit from the top; the
\* quotient q and the remainder r are kept one byte longer than a
\* the state st holds the operands a and b, the bit i to come, q and r
Shifted(st) ==
    [st EXCEPT !.r = SubSeq(AddBytes(st.r, st.r, 1, BitOf(st.a, st.i)), 1, Len(st.r))]

Reduced(st) ==
    IF BytesLt(st.r, st.b, Len(st.b))
    THEN [st EXCEPT !.q = SubSeq(AddBytes(st.q, st.q, 1, 0), 1, Len(st.q)),
                    !.i = st.i - 1]
    ELSE [st EXCEPT !.q = SubSeq(AddBytes(st.q, st.q, 1, 1), 1, Len(st.q)),
                    !.r = SubBytes(st.r, st.b),
                    !.i = st.i - 1]

\* one bit, and the eight bits of a byte, for the states of a set
DivBit(S) == {Reduced(t) : t \in {Shifted(st) : st \in S}}
DivByte(S) == DivBit(DivBit(DivBit(DivBit(DivBit(DivBit(DivBit(DivBit(S))))))))

RECURSIVE DivLoop(_)
DivStep(st) == IF st.i < 0 THEN st ELSE DivLoop(DivByte({st}))
DivLoop(S) == CHOOSE res \in {DivStep(st) : st \in S} : TRUE

Narrowed(st, n) == [q |-> SubSeq(st.q, 1, n), r |-> SubSeq(st.r, 1, n)]

udivmod(a, b) ==
    Narrowed(DivLoop({[a |-> a, b |-> ZeroExtend(b, Len(a) + 1), i |-> 8 * Len(a) - 1,
                      q |-> ZeroBytes(Len(a) + 1), r |-> ZeroBytes(Len(a) + 1)]}),
             Len(a))

\* i64 division truncates towards zero; the remainder takes the dividend's sign
Magnitude(a) == IF Negative(a) THEN NegBytes(a) ELSE a
Signed(neg, m) == IF neg THEN NegBytes(m) ELSE m
idiv(a, b) ==
    Signed(Negative(a) # Negative(b), udivmod(Magnitude(a), Magnitude(b)).q)
irem(a, b) == Signed(Negative(a), udivmod(Magnitude(a), Magnitude(b)).r)

I64_MIN == <<0, 0, 0, 0, 0, 0, 0, 128>>
MinusOne == <<255, 255, 255, 255, 255, 255, 255, 255>>

\* u64::checked_add: None on a carry out of the top byte
NoCarry(sum) == IF sum[9] = 0 THEN Some(SubSeq(sum, 1, 8)) ELSE NoAmount
\* i64::checked_add / checked_sub: None when the sign of the result is wrong
SameSign(a, b, r) == IF Negative(a) = Negative(b) /\ Negative(r) # Negative(a)
                     THEN NoAmount ELSE Some(r)
OtherSign(a, b, r) == IF Negative(a) # Negative(b) /\ Negative(r) # Negative(a)
                      THEN NoAmount ELSE Some(r)
UpperZero_wrapping(p) == Some(SubSeq(p, 1, 8))

\* u64::checked_mul: None when the upper half of the 128-bit product is not zero
UpperZero(p) == IF SubSeq(p, 9, 16) = ZeroBytes(8) THEN Some(SubSeq(p, 1, 8)) ELSE NoAmount
\* i64::checked_mul: None when the upper half is not the sign of the lower half
UpperSign(p) ==
    IF SubSeq(p, 9, 16) = SubSeq(SignExtend(SubSeq(p, 1, 8), 16), 9, 16)
    THEN Some(SubSeq(p, 1, 8)) ELSE NoAmount

\* self.0.checked_add(rhs.0).map($name), and the other four
amount_checked_add(k, a, b) ==
    IF k = "Amount" THEN NoCarry(AddBytes(a, b, 1, 0))
    ELSE SameSign(a, b, SubSeq(AddBytes(a, b, 1, 0), 1, 8))

amount_checked_sub(k, a, b) ==
    IF k = "Amount" THEN (IF BytesLt(a, b, 8) THEN NoAmount ELSE Some(SubBytes(a, b)))
    ELSE OtherSign(a, b, SubBytes(a, b))

amount_checked_mul(k, a, b) ==
    IF k = "Amount" THEN UpperZero(MulBytes(ZeroExtend(a, 16), ZeroExtend(b, 16), 1))
    ELSE UpperSign(MulBytes(SignExtend(a, 16), SignExtend(b, 16), 1))

amount_checked_div(k, a, b) ==
    IF b = ZeroBytes(8) THEN NoAmount
    ELSE IF k = "Amount" THEN Some(udivmod(a, b).q)
    ELSE IF a = I64_MIN /\ b = MinusOne THEN NoAmount
    ELSE Some(idiv(a, b))

amount_checked_rem(k, a, b) ==
    IF b = ZeroBytes(8) THEN NoAmount
    ELSE IF k = "Amount" THEN Some(udivmod(a, b).r)
    ELSE IF a = I64_MIN /\ b = MinusOne THEN NoAmount
    ELSE Some(irem(a, b))

AmountOps == {"add", "sub", "mul", "div", "rem"}

amount_checked(f, k, a, b) ==
    CASE f = "add" -> amount_checked_add(k, a, b)
      [] f = "sub" -> amount_checked_sub(k, a, b)
      [] f = "mul" -> amount_checked_mul(k, a, b)
      [] f = "div" -> amount_checked_div(k, a, b)
      [] f = "rem" -> amount_checked_rem(k, a, b)

\* self.checked_add(rhs).expect("Whoops! Addition error"), and the other four
Expect(r) == [panicked |-> ~r.some, v |-> r.v]
amount_operator(f, k, a, b) == Expect(amount_checked(f, k, a, b))

\* *self = *self + other, and the other four: self after the statement
Assigned(r, a) == [panicked |-> r.panicked, self |-> IF r.panicked THEN a ELSE r.v]
amount_assign(f, k, a, b) == Assigned(amount_operator(f, k, a, b), a)

\* 0, 1, 2, 3, 5, 15, ONE_BTC, 2^32 - 1, 2^32, 8446744073709551615 and the
\* values around 2^63 and 2^64
AmountInputs ==
    {ZeroBytes(8), <<1, 0, 0, 0, 0, 0, 0, 0>>, <<2, 0, 0, 0, 0, 0, 0, 0>>,
     <<3, 0, 0, 0, 0, 0, 0, 0>>, <<5, 0, 0, 0, 0, 0, 0, 0>>, <<15, 0, 0, 0, 0, 0, 0, 0>>,
     <<0, 225, 245, 5, 0, 0, 0, 0>>, <<255, 255, 255, 255, 0, 0, 0, 0>>,
     <<0, 0, 0, 0, 1, 0, 0, 0>>, <<255, 255, 23, 118, 251, 220, 56, 117>>,
     <<255, 255, 255, 255, 255, 255, 255, 63>>, <<0, 0, 0, 0, 0, 0, 0, 64>>,
     <<255, 255, 255, 255, 255, 255, 255, 127>>, I64_MIN,
     <<1, 0, 0, 0, 0, 0, 0, 128>>, <<0, 0, 0, 0, 255, 255, 255, 255>>,
     <<242, 255, 255, 255, 255, 255, 255, 255>>, <<251, 255, 255, 255, 255, 255, 255, 255>>,
     <<254, 255, 255, 255, 255, 255, 255, 255>>, MinusOne}

(***************************************************************************)
(* The state machine: a caller uses the entry points.                      *)
(***************************************************************************)
NoResult ==
    [ok |-> FALSE, val |-> 0, err |-> NoError, consumed |-> -1, pos |-> 0, log |-> <<>>]

InitHost(be, bits) ==
    /\ host_big_endian = be
    /\ usize_bits = bits
    /\ op = "init"
    /\ ty = T("u8")
    /\ has_value = FALSE
    /\ value = 0
    /\ wire = <<>>
    /\ count = -1
    /\ enc_err = NoError
    /\ result = NoResult
    /\ vlen = -1
    /\ reenc = <<>>
    /\ sink_cap = -1
    /\ trail = <<>>
    /\ partial = NoResult
    /\ args = <<>>
    /\ returned = 0

\* a little-endian 64-bit build
Init == InitHost(FALSE, 64)

\* what a call of a function outside the codec leaves alone
codec_vars == <<host_big_endian, usize_bits, ty, has_value, value, wire, count,
                enc_err, result, vlen, reenc, sink_cap, trail, partial>>

Magic(n) ==
    /\ op = "init"
    /\ op' = "magic"
    /\ args' = <<n>>
    /\ returned' = magic(n)
    /\ UNCHANGED codec_vars

FromMagic(m) ==
    /\ op = "init"
    /\ op' = "from_magic"
    /\ args' = <<m>>
    /\ returned' = from_magic(m)
    /\ UNCHANGED codec_vars

\* the test vectors of endianness_test, their prefixes of every length and
\* slices of 0, 1, 3, 5, 7 and 9 bytes
SliceInputs ==
    {SubSeq(<<239, 190, 173, 222, 254, 202, 173, 27, 1>>, 1, n) : n \in 0..9} \cup
    {SubSeq(<<222, 173, 190, 239, 0, 255, 128, 1, 2>>, a, b) : a \in 1..3, b \in 2..9} \cup
    {[i \in 1..n |-> 255] : n \in {2, 4, 8}} \cup {<<173, 222>>, <<0, 0, 0, 1>>}

SliceTo(fn, slice) ==
    /\ op = "init"
    /\ op' = "slice_to"
    /\ args' = <<fn, slice>>
    /\ returned' = slice_to(fn, slice)
    /\ UNCHANGED codec_vars

U32ToArrayBe(val) ==
    /\ op = "init"
    /\ op' = "u32_to_array_be"
    /\ args' = <<val>>
    /\ returned' = u32_to_array_be(val)
    /\ UNCHANGED codec_vars

FlagsAdd(f, o) ==
    /\ op = "init"
    /\ op' = "add"
    /\ args' = <<f, o>>
    /\ returned' = ServiceFlags_add(f, o)
    /\ UNCHANGED codec_vars

FlagsRemove(f, o) ==
    /\ op = "init"
    /\ op' = "remove"
    /\ args' = <<f, o>>
    /\ returned' = ServiceFlags_remove(f, o)
    /\ UNCHANGED codec_vars

FlagsHas(f, o) ==
    /\ op = "init"
    /\ op' = "has"
    /\ args' = <<f, o>>
    /\ returned' = ServiceFlags_has(f, o)
    /\ UNCHANGED codec_vars

FlagsToString(f) ==
    /\ op = "init"
    /\ op' = "to_string"
    /\ args' = <<f>>
    /\ returned' = ServiceFlags_to_string(f)
    /\ UNCHANGED codec_vars

AmountChecked(f, k, a, b) ==
    /\ op = "init"
    /\ op' = "checked"
    /\ args' = <<f, k, a, b>>
    /\ returned' = amount_checked(f, k, a, b)
    /\ UNCHANGED codec_vars

AmountOperator(f, k, a, b) ==
    /\ op = "init"
    /\ op' = "operator"
    /\ args' = <<f, k, a, b>>
    /\ returned' = amount_operator(f, k, a, b)
    /\ UNCHANGED codec_vars

AmountAssign(f, k, a, b) ==
    /\ op = "init"
    /\ op' = "assign"
    /\ args' = <<f, k, a, b>>
    /\ returned' = amount_assign(f, k, a, b)
    /\ UNCHANGED codec_vars

\* serialize(&v): a panic on an encode error leaves no buffer
Serialized(t, v, r) ==
    /\ op = "init"
    /\ op' = IF r.panicked THEN "serialize_panic" ELSE "serialize"
    /\ ty' = t
    /\ has_value' = TRUE
    /\ value' = v
    /\ wire' = IF r.panicked THEN <<>> ELSE r.buf
    /\ count' = IF r.panicked THEN -1 ELSE r.n
    /\ enc_err' = r.err
    /\ result' = NoResult
    /\ vlen' = -1
    /\ reenc' = <<>>
    /\ UNCHANGED <<args, returned, host_big_endian, usize_bits, sink_cap, trail, partial>>

Serialize(t, v) == Serialized(t, v, serialize(t, v))

\* v.consensus_encode(&mut sink) on a caller's sink: `wire` is what the sink
\* holds after the call
Encoded(t, v, cap, r) ==
    /\ op = "init"
    /\ op' = "encode"
    /\ ty' = t
    /\ value' = v
    /\ sink_cap' = cap
    /\ wire' = r.s.buf
    /\ count' = IF r.ok THEN r.n ELSE -1
    /\ enc_err' = r.err
    /\ UNCHANGED <<args, returned, host_big_endian, usize_bits, has_value, result, vlen, reenc, trail,
                   partial>>

Encode(t, v, cap) ==
    Encoded(t, v, cap, consensus_encode(t, [buf |-> <<>>, cap |-> cap], v))

\* bytes arrive from a peer, to be decoded as a T
Receive(t, b) ==
    /\ op = "init"
    /\ op' = "receive"
    /\ ty' = t
    /\ has_value' = FALSE
    /\ value' = 0
    /\ wire' = b
    /\ count' = -1
    /\ enc_err' = NoError
    /\ result' = NoResult
    /\ vlen' = -1
    /\ reenc' = <<>>
    /\ UNCHANGED <<args, returned, host_big_endian, usize_bits, sink_cap, trail, partial>>

\* the serialized value is followed by more bytes in the caller's buffer
AppendTrailing(b) ==
    /\ op = "serialize"
    /\ op' = "append"
    /\ wire' = BCat(wire, b)
    /\ trail' = b
    /\ has_value' = FALSE
    /\ UNCHANGED <<args, returned, host_big_endian, usize_bits, ty, value, count, enc_err, result, vlen,
                   reenc, sink_cap, partial>>

\* deserialize::<T>(&wire)
Deserialize ==
    /\ op \in {"serialize", "receive", "deserialize_partial"}
    /\ op' = "deserialize"
    /\ result' = deserialize(ty, wire)
    /\ UNCHANGED <<args, returned, host_big_endian, usize_bits, ty, has_value, value, wire, count,
                   enc_err, vlen, reenc, sink_cap, trail, partial>>

\* deserialize_partial::<T>(&wire)
DeserializePartial ==
    /\ op \in {"serialize", "receive", "append"}
    /\ op' = "deserialize_partial"
    /\ result' = deserialize_partial(ty, wire)
    /\ partial' = result'
    /\ UNCHANGED <<args, returned, host_big_endian, usize_bits, ty, has_value, value, wire, count,
                   enc_err, vlen, reenc, sink_cap, trail>>

\* serialize(&decoded) of the value that deserialize returned
Reserialized(r) ==
    /\ op' = IF r.panicked THEN "reserialize_panic" ELSE "reserialize"
    /\ reenc' = IF r.panicked THEN <<>> ELSE r.buf

Reserialize ==
    /\ op = "deserialize"
    /\ result.ok
    /\ Reserialized(serialize(ty, result.val))
    /\ UNCHANGED <<args, returned, host_big_endian, usize_bits, ty, has_value, value, wire, count,
                   enc_err, result, vlen, sink_cap, trail, partial>>

\* VarInt(v).len()
VarIntLen ==
    /\ op = "serialize"
    /\ ty = T("VarInt")
    /\ op' = "len"
    /\ vlen' = VarInt_len(value)
    /\ UNCHANGED <<args, returned, host_big_endian, usize_bits, ty, has_value, value, wire, count,
                   enc_err, result, reenc, sink_cap, trail, partial>>

Next ==
    \/ op = "init" /\ \E t \in Types : \E v \in Values(t) : Serialize(t, v)
    \/ op = "init" /\ \E t \in Types : \E v \in Values(t) : \E c \in SinkCaps :
                          Encode(t, v, c)
    \/ op = "init" /\ \E t \in Types : \E b \in RawInputs(t) : Receive(t, b)
    \/ \E b \in Trailers : AppendTrailing(b)
    \/ Deserialize
    \/ DeserializePartial
    \/ Reserialize
    \/ VarIntLen
    \/ \E n \in Networks : Magic(n)
    \/ \E m \in MagicInputs : FromMagic(m)
    \/ \E f \in FlagInputs : \E o \in FlagInputs : FlagsAdd(f, o)
    \/ \E f \in FlagInputs : \E o \in FlagInputs : FlagsRemove(f, o)
    \/ \E f \in FlagInputs : \E o \in FlagInputs : FlagsHas(f, o)
    \/ \E f \in FlagInputs : FlagsToString(f)
    \/ \E fn \in SliceFns : \E slice \in SliceInputs : SliceTo(fn, slice)
    \/ \E val \in U32Samples : U32ToArrayBe(val)

Spec == Init /\ [][Next]_vars

\* the same callers on a little-endian and on a big-endian 64-bit build
InitAnyEndian == \E be \in BOOLEAN : InitHost(be, 64)
SpecAnyEndian == InitAnyEndian /\ [][Next]_vars

\* a little-endian build for a 32-bit or a 64-bit target
InitAnyWidth == \E bits \in {32, 64} : InitHost(FALSE, bits)
SpecAnyWidth == InitAnyWidth /\ [][Next]_vars

\* the callers of the arithmetic of Amount and SignedAmount
NextAmount ==
    \/ \E f \in AmountOps, k \in AmountKinds, a \in AmountInputs, b \in AmountInputs :
           AmountChecked(f, k, a, b)
    \/ \E f \in AmountOps, k \in AmountKinds, a \in AmountInputs, b \in AmountInputs :
           AmountOperator(f, k, a, b)
    \/ \E f \in AmountOps, k \in AmountKinds, a \in AmountInputs, b \in AmountInputs :
           AmountAssign(f, k, a, b)

SpecAmount == Init /\ [][NextAmount]_vars

(***************************************************************************)
(* Properties.  What a property says of the bytes on the wire is written   *)
(* out here byte by byte, apart from the codec's own operators.            *)
(***************************************************************************)
Decoded == op \in {"deserialize", "deserialize_partial"}
ScalarType(t) == t.k \in ScalarKinds \/ t.k = "array"

\* the first n bytes of a buffer
FirstBytes(w, n) == BToSeq(BTake(w, n))

\* bytes i..j of a byte list as 16-bit limbs, low byte first
RECURSIVE LimbsOf(_, _, _)
LimbsOf(b, i, j) ==
    IF i > j THEN <<>> ELSE <<b[i] + 256 * b[i + 1]>> \o LimbsOf(b, i + 2, j)

\* the length of a VarInt by its first byte
PrefixLen(b) == IF b = 255 THEN 9 ELSE IF b = 254 THEN 5 ELSE IF b = 253 THEN 3 ELSE 1

\* the buffer starts with a whole VarInt, minimal or not
WholePrefix(w) == BLen(w) >= 1 /\ BLen(w) >= PrefixLen(FirstBytes(w, 1)[1])

\* the u64 that a whole VarInt at the start of the buffer carries
Declared(w) ==
    IF FirstBytes(w, 1)[1] < 253 THEN <<FirstBytes(w, 1)[1], 0, 0, 0>>
    ELSE CastLimbs(LimbsOf(FirstBytes(w, 9), 2, PrefixLen(FirstBytes(w, 1)[1])), 4)

\* that VarInt is the shortest one for its value
MinimalPrefix(w) ==
    \/ FirstBytes(w, 1)[1] < 253
    \/ FirstBytes(w, 1)[1] = 253 /\ Declared(w)[1] > 252
    \/ FirstBytes(w, 1)[1] = 254 /\ Declared(w)[2] > 0
    \/ FirstBytes(w, 1)[1] = 255 /\ (Declared(w)[3] > 0 \/ Declared(w)[4] > 0)

\* c * k by k additions, one limb wider than c so that nothing is lost
RECURSIVE AddLimbs(_, _, _, _)
AddLimbs(a, b, i, carry) ==
    IF i > Len(a) THEN <<>>
    ELSE <<(a[i] + b[i] + carry) % LimbBase>> \o
         AddLimbs(a, b, i + 1, (a[i] + b[i] + carry) \div LimbBase)

RECURSIVE Times(_, _)
Times(c, k) ==
    IF k = 0 THEN ZeroLimbs(Len(c) + 1)
    ELSE AddLimbs(Times(c, k - 1), CastLimbs(c, Len(c) + 1), 1, 0)

\* the static element size of a length-prefixed type
ElementSize(t) ==
    IF t.k = "VecU64" THEN 8 ELSE IF t.k = "VecVecU8" THEN 3 * (usize_bits \div 8) ELSE 1

\* the declared byte size: it fits in usize, and it is above the ceiling
FitsUsize(p) == \A i \in (UsizeLimbs + 1)..Len(p) : p[i] = 0
AboveCeiling(p) == LimbsLt(IntToLimbs(MAX_VEC_SIZE, 2), p)

\* C1: a scalar value (integers, bool, VarInt, byte arrays) serializes
\* without failing, and deserialize of the bytes returns Ok of the value.
C1_ScalarRoundTrip ==
    /\ (op = "serialize_panic" => ~ScalarType(ty))
    /\ (op = "deserialize" /\ has_value /\ ScalarType(ty)) =>
           (result.ok /\ result.val = value)

C1_Witness ==
    /\ op = "deserialize" /\ has_value
    /\ ty = T("u32") /\ value = <<48879, 57005>>
    /\ wire = BFromSeq(<<239, 190, 173, 222>>)
    /\ result.ok /\ result.val = value

\* a value of a length-prefixed type is within the decoder's ceiling
WithinCeiling(t, v) ==
    CASE t.k \in {"VecU8", "String"} -> BLen(v) <= MAX_VEC_SIZE
      [] t.k = "VecU64" -> Len(v) * 8 <= MAX_VEC_SIZE
      [] t.k = "VecVecU8" ->
             /\ Len(v) * ElementSize(t) <= MAX_VEC_SIZE
             /\ \A i \in 1..Len(v) : BLen(v[i]) <= MAX_VEC_SIZE

\* C2 as stated: every Vec<u8>, Vec<u64>, Vec<Vec<u8>> and String value that
\* serialize accepts deserializes from its bytes to Ok of the value.
C2_SeqRoundTrip_Original ==
    (op = "deserialize" /\ has_value /\ ty.k \in SeqKinds) =>
        (result.ok /\ result.val = value)

\* C2 amended: a Vec<u8>, Vec<u64>, Vec<Vec<u8>> or String value whose element
\* count times the static element size is at most 4,000,000 at every level
\* round-trips; a longer one serializes, and deserialize of its bytes fails
\* with OversizedVectorAllocation.
C2_SeqRoundTrip ==
    /\ (op = "serialize_panic" => ty.k \notin SeqKinds)
    /\ (op = "deserialize" /\ has_value /\ ty.k \in SeqKinds) =>
           IF WithinCeiling(ty, value)
           THEN result.ok /\ result.val = value
           ELSE ~result.ok /\ result.err.kind = "OversizedVectorAllocation"

C2_Witness ==
    /\ op = "deserialize" /\ has_value
    /\ ty = T("VecU8") /\ BLen(value) = MAX_VEC_SIZE
    /\ result.ok /\ result.val = value

\* C3: VarInt encode writes the shortest class for the magnitude: the byte
\* itself up to 0xFC, else 0xFD, 0xFE or 0xFF and the value in 2, 4 or 8
\* little-endian bytes, and returns 1, 3, 5 or 9, the number of bytes written.
C3_VarIntEncodeMinimal ==
    (op = "serialize" /\ ty = T("VarInt")) =>
        /\ wire = BFromSeq(
               IF value[3] # 0 \/ value[4] # 0 THEN <<255>> \o WireBytes(value)
               ELSE IF value[2] # 0 THEN <<254>> \o WireBytes(<<value[1], value[2]>>)
               ELSE IF value[1] > 252 THEN <<253>> \o WireBytes(<<value[1]>>)
               ELSE <<value[1]>>)
        /\ count = BLen(wire)
        /\ count =
               (IF value[3] # 0 \/ value[4] # 0 THEN 9
                ELSE IF value[2] # 0 THEN 5
                ELSE IF value[1] > 252 THEN 3 ELSE 1)
        /\ (value = <<0, 0, 1, 0>> => wire = BFromSeq(<<255, 0, 0, 0, 0, 1, 0, 0, 0>>))

C3_Witness ==
    /\ op = "serialize" /\ ty = T("VarInt")
    /\ value = <<0, 0, 1, 0>>
    /\ wire = BFromSeq(<<255, 0, 0, 0, 0, 1, 0, 0, 0>>)
    /\ count = 9

\* C4: VarInt decode returns a first byte below 0xFD as the value; after
\* 0xFD, 0xFE or 0xFF it returns the 2-, 4- or 8-byte little-endian payload
\* when that is above 0xFC, 0xFFFF or 0xFFFFFFFF and fails with
\* NonMinimalVarInt otherwise; FD FC 00 and FE FF FF 00 00 are rejected.
C4_VarIntDecodeCanonical ==
    (op = "deserialize_partial" /\ ty = T("VarInt") /\ WholePrefix(wire)) =>
        /\ IF MinimalPrefix(wire)
           THEN /\ result.ok
                /\ result.val = Declared(wire)
                /\ result.consumed = PrefixLen(FirstBytes(wire, 1)[1])
           ELSE ~result.ok /\ result.err = NonMinimalVarInt
        /\ (wire \in {BFromSeq(<<253, 252, 0>>), BFromSeq(<<254, 255, 255, 0, 0>>)}
               => result.err = NonMinimalVarInt)

C4_Witness ==
    /\ op = "deserialize_partial" /\ ty = T("VarInt")
    /\ wire = BFromSeq(<<254, 255, 255, 0, 0>>)
    /\ ~result.ok /\ result.err = NonMinimalVarInt

Reencoded == op \in {"reserialize", "reserialize_panic"}

\* C5 as stated: for every type, when deserialize accepts a byte sequence,
\* serialize of the decoded value gives back that byte sequence.
C5_CanonicalOnly_Original ==
    Reencoded => (op = "reserialize" /\ reenc = wire)

\* C5 amended: for the integers, VarInt, the byte arrays, Vec<u8>, Vec<u64>,
\* Vec<Vec<u8>>, String and the records without a bool field, when
\* deserialize accepts a byte sequence, serialize of the decoded value gives
\* back that byte sequence.
C5_CanonicalOnly ==
    (Reencoded /\ ty.k \notin {"bool", "CommandString", "VersionMessage"}) =>
        (op = "reserialize" /\ reenc = wire)

C5_Witness ==
    /\ op = "reserialize" /\ ~has_value
    /\ ty = T("String") /\ wire = BFromSeq(<<2, 97, 97>>)
    /\ reenc = wire

\* C6: VarInt::len returns 1 up to 0xFC, 3 up to 0xFFFF, 5 up to 0xFFFFFFFF
\* and 9 above, which is the byte count that consensus_encode writes and
\* returns for the value.
C6_LenIsEncodedLength ==
    op = "len" =>
        /\ vlen = count
        /\ vlen = BLen(wire)
        /\ vlen =
               (IF value[3] # 0 \/ value[4] # 0 THEN 9
                ELSE IF value[2] # 0 THEN 5
                ELSE IF value[1] > 252 THEN 3 ELSE 1)

\* C7: serialize(false) is the byte 00 and serialize(true) the byte 01;
\* decoding a bool consumes one byte and gives true exactly when the byte is
\* not zero.
C7_BoolCodec ==
    /\ (op = "serialize" /\ ty = T("bool")) =>
           (wire = BFromSeq(<<IF value THEN 1 ELSE 0>>) /\ count = 1)
    /\ (op = "deserialize_partial" /\ ty = T("bool") /\ BLen(wire) >= 1) =>
           /\ result.ok
           /\ result.consumed = 1
           /\ result.val = (FirstBytes(wire, 1)[1] # 0)

C7_Witness ==
    /\ op = "deserialize_partial" /\ ty = T("bool")
    /\ wire = BFromSeq(<<128, 0>>)
    /\ result.ok /\ result.val = TRUE /\ result.consumed = 1

\* a length-prefixed type is being decoded from bytes that start with a whole,
\* minimal VarInt: the declared count
SeqDecoded == Decoded /\ ty.k \in SeqKinds /\ WholePrefix(wire) /\ MinimalPrefix(wire)
DeclaredSize == Times(Declared(wire), ElementSize(ty))

\* the decoder passed the ceiling check of the outermost sequence
PassedCheck(log) ==
    \E i \in 1..(Len(log) - 1) :
        /\ log[i][1] = "check" /\ log[i + 1][1] = "alloc"
        /\ \A j \in 1..(i - 1) : log[j][1] = "read"

\* C8 as stated: every declared count whose count * element_size is above
\* 4,000,000 makes decode fail with OversizedVectorAllocation, requested =
\* count * element_size and max = 4,000,000; a smaller one passes the check.
C8_Oversized_Original ==
    SeqDecoded =>
        IF AboveCeiling(DeclaredSize)
        THEN /\ ~result.ok
             /\ result.err.kind = "OversizedVectorAllocation"
             /\ CastLimbs(result.err.requested, Len(DeclaredSize)) = DeclaredSize
             /\ result.err.max = 4000000
        ELSE PassedCheck(result.log)

\* C8 amended: every declared count whose count * element_size fits in usize
\* and is above 4,000,000 makes decode fail with OversizedVectorAllocation,
\* requested = count * element_size and max = 4,000,000; a count whose byte
\* size is 4,000,000 or less passes the check.
C8_Oversized ==
    (SeqDecoded /\ FitsUsize(DeclaredSize)) =>
        IF AboveCeiling(DeclaredSize)
        THEN /\ ~result.ok
             /\ result.err.kind = "OversizedVectorAllocation"
             /\ CastLimbs(result.err.requested, Len(DeclaredSize)) = DeclaredSize
             /\ result.err.max = 4000000
        ELSE PassedCheck(result.log)

C8_Witness ==
    /\ op = "deserialize_partial" /\ ty = T("VecU64")
    /\ FirstBytes(wire, 5) = <<254, 33, 161, 7, 0>>
    /\ result.err = OversizedVectorAllocation(IntToLimbs(4000008, 4), 4000000)

\* C9: the byte size is the declared count times the static element size,
\* multiplied with an overflow check: when the product does not fit in usize
\* decode fails with ParseFailed("Invalid length") before the ceiling check,
\* and the size the ceiling check sees is the whole product.
C9_CheckedMultiplication ==
    (SeqDecoded /\ ty.k \in {"VecU64", "VecVecU8"}) =>
        IF FitsUsize(DeclaredSize)
        THEN \E i \in 1..Len(result.log) :
                 /\ result.log[i][1] = "check"
                 /\ \A j \in 1..(i - 1) : result.log[j][1] = "read"
                 /\ CastLimbs(result.log[i][2], Len(DeclaredSize)) = DeclaredSize
        ELSE /\ ~result.ok
             /\ result.err = ParseFailed("Invalid length")
             /\ \A i \in 1..Len(result.log) : result.log[i][1] = "read"

C9_Witness ==
    /\ op = "deserialize_partial" /\ ty = T("VecU64")
    /\ FirstBytes(wire, 9) = <<255, 0, 0, 0, 0, 0, 0, 0, 32>>
    /\ result.err = ParseFailed("Invalid length")

\* the events i..j of a log are the reads of one VarInt
PrefixReads(log, i, j) ==
    /\ i >= 1
    /\ log[i] = <<"read", 1>>
    /\ (j = i \/ (j = i + 1 /\ log[j] \in {<<"read", 2>>, <<"read", 4>>, <<"read", 8>>}))

\* C10: the ceiling check comes right after the reads of the VarInt prefix
\* and before the allocation and the element reads; every allocation follows
\* a check that let its size pass and asks for at most 4,000,000 bytes; when
\* the oversized error is returned nothing was allocated or read after the
\* prefix of the rejected sequence, and the source stands right behind it.
C10_CheckBeforeAllocate ==
    (Decoded /\ ty.k \in SeqKinds) =>
        /\ \A i \in 1..Len(result.log) :
               result.log[i][1] = "alloc" =>
                   /\ i > 1
                   /\ result.log[i - 1][1] = "check"
                   /\ result.log[i - 1][2] = result.log[i][2]
                   /\ ~AboveCeiling(result.log[i][2])
        /\ \A i \in 1..Len(result.log) :
               result.log[i][1] = "check" =>
                   (PrefixReads(result.log, i - 1, i - 1) \/
                    PrefixReads(result.log, i - 2, i - 1))
        /\ (\E i \in 1..Len(result.log) : result.log[i][1] = "check") =>
               \E i \in 1..Len(result.log) :
                   /\ result.log[i][1] = "check"
                   /\ PrefixReads(result.log, 1, i - 1)
        /\ (~result.ok /\ result.err.kind = "OversizedVectorAllocation") =>
               /\ result.log[Len(result.log)][1] = "check"
               /\ AboveCeiling(result.log[Len(result.log)][2])
               /\ (ty.k # "VecVecU8" =>
                       result.pos = PrefixLen(FirstBytes(wire, 1)[1]))

C10_Witness ==
    /\ op = "deserialize_partial" /\ ty = T("VecU8")
    /\ FirstBytes(wire, 5) = <<254, 1, 9, 61, 0>>
    /\ BLen(wire) = 5 + MAX_VEC_SIZE + 1
    /\ result.err.kind = "OversizedVectorAllocation"
    /\ result.pos = 5
    /\ result.log = <<<<"read", 1>>, <<"read", 4>>, <<"check", IntToLimbs(4000001, 4)>>>>

(***************************************************************************)
(* deserialize against deserialize_partial.                                *)
(***************************************************************************)
NotConsumed == ParseFailed("data not consumed entirely when explicitly deserializing")

\* the number of bytes the decoder read from its source
RECURSIVE BytesRead(_)
BytesRead(log) ==
    IF log = <<>> THEN 0
    ELSE (IF log[1][1] = "read" THEN log[1][2] ELSE 0) + BytesRead(Tail(log))

\* deserialize_partial ran on the bytes before deserialize did
PartialCalled == partial.ok \/ partial.err # NoError

\* C11: deserialize(bytes) is Ok(v) exactly when deserialize_partial(bytes) is
\* Ok((v, n)) with n the length of the bytes; with bytes left over it fails
\* with the parse error, and an error of the decoder is returned unchanged.
C11_ExactConsumption ==
    (op = "deserialize" /\ PartialCalled) =>
        /\ result.ok <=> (partial.ok /\ partial.consumed = BLen(wire))
        /\ result.ok => result.val = partial.val
        /\ (partial.ok /\ partial.consumed # BLen(wire)) => result.err = NotConsumed
        /\ ~partial.ok => result.err = partial.err

C11_Witness ==
    /\ op = "deserialize" /\ ty = T("bool")
    /\ wire = BFromSeq(<<1, 0>>)
    /\ partial.ok /\ partial.val = TRUE /\ partial.consumed = 1
    /\ ~result.ok /\ result.err = NotConsumed

\* a value that decodes from its own encoding to itself
RECURSIVE RoundTrips(_, _)
RoundTrips(t, v) ==
    CASE t.k \in SeqKinds -> WithinCeiling(t, v)
      [] t.k = "CommandString" -> Len(v) <= 12 /\ \A i \in 1..Len(v) : v[i] \in 1..127
      [] t.k \in RecordKinds ->
             \A i \in 1..Len(Fields(t)) : RoundTrips(Fields(t)[i], v[i])
      [] OTHER -> TRUE

\* C12: for every value v that round-trips and every trailing bytes t,
\* deserialize_partial(serialize(v) ++ t) is Ok((v, n)) with n the length of
\* serialize(v); the consumed count is the number of bytes the decoder read
\* and never exceeds the length of the input.
C12_PartialToleratesTrailing ==
    /\ (op = "deserialize_partial" /\ (has_value \/ trail # <<>>)
            /\ RoundTrips(ty, value)) =>
           /\ result.ok /\ result.val = value
           /\ result.consumed = BLen(wire) - BLen(trail)
           /\ result.consumed = count
    /\ (op = "deserialize_partial" /\ result.ok) =>
           /\ result.consumed <= BLen(wire)
           /\ result.consumed = BytesRead(result.log)

C12_Witness ==
    /\ op = "deserialize_partial" /\ ty = T("bool") /\ value = TRUE
    /\ trail = BFromSeq(<<255>>) /\ wire = BFromSeq(<<1, 255>>)
    /\ result.ok /\ result.val = TRUE /\ result.consumed = 1

(***************************************************************************)
(* Byte order of the multi-byte integers.                                  *)
(***************************************************************************)
IntKinds == {"u16", "u32", "u64", "i16", "i32", "i64"}

\* C13 as stated: on every host a u16..i64 is emitted as its bytes from the
\* least significant one, and decoding reads the bytes the same way.
C13_HostIndependentLittleEndian ==
    /\ (op = "serialize" /\ ty.k \in IntKinds) => wire = BFromSeq(WireBytes(value))
    /\ (op = "deserialize_partial" /\ ty.k \in IntKinds
            /\ BLen(wire) >= IntWidth(ty.k)) =>
           /\ result.ok
           /\ result.val = LimbsOf(FirstBytes(wire, IntWidth(ty.k)), 1, IntWidth(ty.k))

(***************************************************************************)
(* Command strings.                                                        *)
(***************************************************************************)
ZeroPadded(v) == [x \in 1..12 |-> IF x <= Len(v) THEN v[x] ELSE 0]
NonNulAscii(v) == \A i \in 1..Len(v) : v[i] \in 1..127

\* C14: a command of at most 12 bytes is emitted as exactly 12 bytes, its own
\* bytes then 0x00 padding; a longer one fails with
\* UnrecognizedNetworkCommand and nothing is written to the sink.
C14_CommandEncode ==
    (op = "encode" /\ ty = T("CommandString")) =>
        IF Len(value) > 12
        THEN enc_err = UnrecognizedNetworkCommand(value) /\ wire = <<>> /\ count = -1
        ELSE sink_cap = -1 =>
                 /\ enc_err = NoError
                 /\ wire = BFromSeq(ZeroPadded(value))
                 /\ BLen(wire) = 12 /\ count = 12

C14_Witness ==
    /\ op = "encode" /\ ty = T("CommandString") /\ sink_cap = 20
    /\ Len(value) = 13
    /\ enc_err = UnrecognizedNetworkCommand(value) /\ wire = <<>>

\* C15 as stated: every command string of at most 12 bytes decodes from its
\* encoding to itself.
C15_CommandRoundTrip_Original ==
    (op = "deserialize" /\ has_value /\ ty = T("CommandString") /\ Len(value) <= 12) =>
        (result.ok /\ result.val = value)

\* C15: every command string of at most 12 bytes whose characters are ASCII
\* other than NUL decodes from its encoding to itself.
C15_CommandRoundTrip ==
    (op = "deserialize" /\ has_value /\ ty = T("CommandString") /\ Len(value) <= 12
         /\ NonNulAscii(value)) =>
        (result.ok /\ result.val = value)

C15_Witness ==
    /\ op = "deserialize" /\ has_value /\ ty = T("CommandString")
    /\ value = <<118, 101, 114>>
    /\ wire = BFromSeq(<<118, 101, 114, 0, 0, 0, 0, 0, 0, 0, 0, 0>>)
    /\ result.ok /\ result.val = value

RECURSIVE TrimTrailing(_)
TrimTrailing(q) ==
    IF q = <<>> \/ q[Len(q)] # 0 THEN q ELSE TrimTrailing(SubSeq(q, 1, Len(q) - 1))

\* C16 as stated: decoding a 12-byte command field drops the 0x00 bytes at
\* its end only and keeps every other byte, in place, as an ASCII character.
C16_TrimTrailingOnly ==
    (op = "deserialize" /\ ty = T("CommandString") /\ BLen(wire) = 12) =>
        (result.ok /\ result.val = TrimTrailing(BToSeq(wire)))

(***************************************************************************)
(* Records made by impl_consensus_encoding.                                *)
(***************************************************************************)
\* the encodings of the fields, each serialized on its own, one after another
RECURSIVE ConcatFields(_, _, _)
ConcatFields(fs, v, i) ==
    IF i > Len(fs) THEN <<>>
    ELSE BCat(serialize(fs[i], v[i]).buf, ConcatFields(fs, v, i + 1))

RECURSIVE SumFields(_, _, _)
SumFields(fs, v, i) ==
    IF i > Len(fs) THEN 0 ELSE serialize(fs[i], v[i]).n + SumFields(fs, v, i + 1)

\* C17 as stated: a record's encoding is the concatenation of its fields'
\* encodings in declaration order, the returned count is the sum of the
\* fields' counts, and decoding the encoding field by field gives the record.
C17_StructuralComposition_Original ==
    /\ (op = "serialize" /\ ty.k \in RecordKinds) =>
           /\ wire = ConcatFields(Fields(ty), value, 1)
           /\ count = SumFields(Fields(ty), value, 1)
    /\ (op = "deserialize" /\ has_value /\ ty.k \in RecordKinds) =>
           (result.ok /\ result.val = value)

\* C17: a record's encoding is the concatenation of its fields' encodings in
\* declaration order and the returned count is the sum of the fields' counts;
\* decoding the encoding field by field gives the record when each field
\* value round-trips on its own, and fails otherwise.
C17_StructuralComposition ==
    /\ (op = "serialize" /\ ty.k \in RecordKinds) =>
           /\ wire = ConcatFields(Fields(ty), value, 1)
           /\ count = SumFields(Fields(ty), value, 1)
    /\ (op = "deserialize" /\ has_value /\ ty.k \in RecordKinds) =>
           IF RoundTrips(ty, value) THEN result.ok /\ result.val = value
           ELSE ~result.ok

C17_Witness ==
    /\ op = "deserialize" /\ has_value /\ ty = T("Triple")
    /\ value = <<<<48879, 57005>>, <<1, 2, 3, 4>>, BFromSeq(<<7>>)>>
    /\ wire = BFromSeq(<<239, 190, 173, 222, 1, 2, 3, 4, 1, 7>>)
    /\ count = 10
    /\ result.ok /\ result.val = value

\* C18 as stated: when a field fails to emit, the error is returned unchanged
\* and the sink holds no bytes of the partially written record.
C18_NoPartialRecord ==
    (op = "encode" /\ ty.k \in RecordKinds /\ enc_err # NoError) =>
        (enc_err = IoError("WriteZero") /\ count = -1 /\ wire = <<>>)

(***************************************************************************)
(* serialize as a whole.                                                   *)
(***************************************************************************)
\* C19 as stated: consensus_encode fails only when the sink fails, so
\* serialize returns a buffer for every value of every Encodable type.
C19_SerializeNeverPanics ==
    /\ op # "serialize_panic"
    /\ (op = "encode" /\ enc_err # NoError) => enc_err.kind = "Io"

\* C20: a successful consensus_encode returns the number of bytes it appended
\* to the sink, so the length of serialize(v) is the returned count.
C20_CountIsBytesWritten ==
    (op \in {"serialize", "encode"} /\ enc_err = NoError) => count = BLen(wire)

C20_Witness ==
    /\ op = "serialize" /\ ty = T("U16x8")
    /\ value = [i \in 1..8 |-> <<257 * i>>]
    /\ enc_err = NoError /\ count = 16 /\ BLen(wire) = 16

(***************************************************************************)
(* Decode failures of the fixed-width types and of String.                 *)
(***************************************************************************)
FixedWidth(t) ==
    IF t.k = "array" THEN t.n ELSE IF t.k \in {"u8", "i8"} THEN 1 ELSE IntWidth(t.k)

\* C21: decoding an integer of W bytes or a [u8; N] from a source of at least
\* that many bytes succeeds and consumes exactly W (or N) bytes; from a
\* shorter source it fails with the Io error and with nothing else.
C21_FixedWidthDecode ==
    (op = "deserialize_partial" /\ (ty.k \in IntKinds \cup {"u8", "i8", "array"})) =>
        IF BLen(wire) >= FixedWidth(ty)
        THEN result.ok /\ result.consumed = FixedWidth(ty)
                       /\ result.pos = FixedWidth(ty)
                       /\ result.log = <<<<"read", FixedWidth(ty)>>>>
        ELSE ~result.ok /\ result.err.kind = "Io" /\ result.log = <<>>
                        /\ result.pos = BLen(wire)

C21_Witness ==
    /\ op = "deserialize_partial" /\ ty = T("u32")
    /\ wire = BFromSeq(<<1, 2, 255>>)
    /\ ~result.ok /\ result.err = IoError("UnexpectedEof")

\* well-formed UTF-8 (RFC 3629), byte list by byte list
Cont(q, i, lo, hi) == Len(q) >= i /\ q[i] >= lo /\ q[i] <= hi

RECURSIVE WellFormed(_)
WellFormed(q) ==
    IF q = <<>> THEN TRUE
    ELSE IF q[1] < 128 THEN WellFormed(Tail(q))
    ELSE IF q[1] >= 194 /\ q[1] <= 223
    THEN Cont(q, 2, 128, 191) /\ WellFormed(SubSeq(q, 3, Len(q)))
    ELSE IF q[1] >= 224 /\ q[1] <= 239
    THEN /\ Cont(q, 2, IF q[1] = 224 THEN 160 ELSE 128, IF q[1] = 237 THEN 159 ELSE 191)
         /\ Cont(q, 3, 128, 191)
         /\ WellFormed(SubSeq(q, 4, Len(q)))
    ELSE IF q[1] >= 240 /\ q[1] <= 244
    THEN /\ Cont(q, 2, IF q[1] = 240 THEN 144 ELSE 128, IF q[1] = 244 THEN 143 ELSE 191)
         /\ Cont(q, 3, 128, 191) /\ Cont(q, 4, 128, 191)
         /\ WellFormed(SubSeq(q, 5, Len(q)))
    ELSE FALSE

\* a buffer of ASCII runs is well-formed whatever its length
ValidUtf8(b) ==
    IF \A i \in 1..Len(b) : b[i][1] < 128 THEN TRUE ELSE WellFormed(BToSeq(b))

\* C22: a String is decoded as the bytes of a Vec<u8>; when that decode fails
\* String's decode fails the same way, when the bytes are well-formed UTF-8
\* the result is the string of exactly those bytes, and when they are not it
\* is ParseFailed.
C22_StringValidatesUtf8 ==
    (op = "deserialize_partial" /\ ty = T("String")) =>
        IF ~deserialize_partial(T("VecU8"), wire).ok
        THEN ~result.ok /\ result.err = deserialize_partial(T("VecU8"), wire).err
        ELSE IF ValidUtf8(deserialize_partial(T("VecU8"), wire).val)
        THEN /\ result.ok
             /\ result.val = deserialize_partial(T("VecU8"), wire).val
             /\ result.consumed = deserialize_partial(T("VecU8"), wire).consumed
        ELSE ~result.ok /\ result.err = ParseFailed("String was not valid UTF-8")

C22_Witness ==
    /\ op = "deserialize_partial" /\ ty = T("String")
    /\ wire = BFromSeq(<<3, 237, 160, 128>>)
    /\ ~result.ok /\ result.err = ParseFailed("String was not valid UTF-8")

(***************************************************************************)
(* Network magic.                                                          *)
(***************************************************************************)
\* the four magic bytes as they stand on the wire
MagicBytes(n) ==
    CASE n = "Bitcoin" -> <<249, 190, 180, 217>>
      [] n = "Testnet" -> <<11, 17, 9, 7>>
      [] n = "Regtest" -> <<250, 191, 181, 218>>

\* C23: from_magic(n.magic()) is Some(n) for each of the three networks and
\* from_magic is None for every other u32; distinct networks have distinct
\* magics; serialize(n.magic()) is the four magic bytes, low byte first, and
\* deserialize maps them back to n.magic().
C23_NetworkMagic ==
    /\ op = "magic" =>
           /\ from_magic(returned) = Some(args[1])
           /\ \A n \in Networks \ {args[1]} : magic(n) # returned
           /\ ~serialize(T("u32"), returned).panicked
           /\ serialize(T("u32"), returned).buf = BFromSeq(MagicBytes(args[1]))
           /\ deserialize(T("u32"), BFromSeq(MagicBytes(args[1]))).ok
           /\ deserialize(T("u32"), BFromSeq(MagicBytes(args[1]))).val = returned
    /\ op = "from_magic" =>
           /\ returned.some <=> (\E n \in Networks : LimbsOf(MagicBytes(n), 1, 4) = args[1])
           /\ returned.some => LimbsOf(MagicBytes(returned.v), 1, 4) = args[1]

C23_Witness ==
    /\ op = "from_magic" /\ args = <<<<48889, 55732>>>>
    /\ returned = Some("Bitcoin")

(***************************************************************************)
(* ServiceFlags.                                                           *)
(***************************************************************************)
\* bit i (0..63) of a flag word
BitAt(v, i) == (v[(i \div 16) + 1] \div (2 ^ (i % 16))) % 2

\* C24 as stated: after flags.remove(other) no bit of other is set in flags,
\* every bit outside other is as it was, whatever was set before, and the
\* value returned is the updated flags.
C24_RemoveClears ==
    op = "remove" =>
        /\ \A i \in 0..63 :
               BitAt(returned.self, i) =
                   (IF BitAt(args[2], i) = 1 THEN 0 ELSE BitAt(args[1], i))
        /\ returned.ret = returned.self

\* the names of the named flags that self has, in Display's order, with '|'
\* between them
RECURSIVE NamesOf(_, _, _)
NamesOf(self, i, sep) ==
    IF i > Len(NamedFlags) THEN ""
    ELSE IF ServiceFlags_has(self, NamedFlags[i][2])
    THEN sep \o NamedFlags[i][1] \o NamesOf(self, i + 1, "|")
    ELSE NamesOf(self, i + 1, sep)

\* self without the bits 0, 1, 2, 6 and 10 of the named flags
RECURSIVE UnnamedLow(_, _)
UnnamedLow(x, i) ==
    IF i > 15 THEN 0
    ELSE (IF i \in {0, 1, 2, 6, 10} THEN 0 ELSE ((x \div (2 ^ i)) % 2) * (2 ^ i))
         + UnnamedLow(x, i + 1)

UnnamedBits(self) == <<UnnamedLow(self[1], 0), self[2], self[3], self[4]>>

\* C28 as stated: NONE prints as ServiceFlags(NONE); any other value prints
\* as ServiceFlags(...) with the name of every named flag it has, in the
\* fixed order and separated by '|', then the unnamed bits in hex if any.
C28_DisplayListsFlags ==
    op = "to_string" =>
        returned =
            IF args[1] = NONE THEN "ServiceFlags(NONE)"
            ELSE "ServiceFlags(" \o NamesOf(args[1], 1, "")
                 \o (IF UnnamedBits(args[1]) = NONE THEN ""
                     ELSE (IF NamesOf(args[1], 1, "") = "" THEN "" ELSE "|")
                          \o "0x" \o LowerHex(UnnamedBits(args[1])))
                 \o ")"

\* the value of an amount as a 17-byte two's complement number, wide enough
\* for every sum, difference and product of two 64-bit numbers
Wide(k, a) == IF k = "Amount" THEN ZeroExtend(a, 17) ELSE SignExtend(a, 17)

\* twice acc, plus a when the bit is set
DoubleAdd(acc, a, bit) ==
    IF bit = 1
    THEN SubSeq(AddBytes(SubSeq(AddBytes(acc, acc, 1, 0), 1, Len(acc)), a, 1, 0), 1, Len(acc))
    ELSE SubSeq(AddBytes(acc, acc, 1, 0), 1, Len(acc))

\* the product by shift and add over the bits of b, from the top; the state
\* st holds the operands a and b, the bit i to come and the sum acc
MulBit(S) == {[st EXCEPT !.acc = DoubleAdd(st.acc, st.a, BitOf(st.b, st.i)),
                          !.i = st.i - 1] : st \in S}
MulByte(S) == MulBit(MulBit(MulBit(MulBit(MulBit(MulBit(MulBit(MulBit(S))))))))

RECURSIVE WideMulLoop(_)
WideMulStep(st) == IF st.i < 0 THEN st.acc ELSE WideMulLoop(MulByte({st}))
WideMulLoop(S) == CHOOSE res \in {WideMulStep(st) : st \in S} : TRUE

\* the product of two amounts from the product of their magnitudes
Mag(k, a) == IF k = "Amount" THEN a ELSE Magnitude(a)
Neg(k, a) == k = "SignedAmount" /\ Negative(a)
WideMul(k, a, b) ==
    Signed(Neg(k, a) # Neg(k, b),
           WideMulLoop({[a |-> ZeroExtend(Mag(k, a), 17), b |-> Mag(k, b), i |-> 63,
                         acc |-> ZeroBytes(17)]}))
WideAdd(a, b) == SubSeq(AddBytes(a, b, 1, 0), 1, Len(a))

\* the mathematical result of add, sub or mul
Exact(f, k, a, b) ==
    CASE f = "add" -> WideAdd(Wide(k, a), Wide(k, b))
      [] f = "sub" -> SubBytes(Wide(k, a), Wide(k, b))
      [] f = "mul" -> WideMul(k, a, b)

\* a wide number is in the range of the type when its low 8 bytes stand for it
FitsAmount(k, w) == w = Wide(k, SubSeq(w, 1, 8))
ExactOrNone(k, w) == IF FitsAmount(k, w) THEN Some(SubSeq(w, 1, 8)) ELSE NoAmount

\* q and r are the quotient and the remainder of a by b: a = q * b + r, the
\* remainder is smaller than the divisor and has the sign of the dividend
Smaller(k, r, b) ==
    BytesLt(Mag(k, r), Mag(k, b), 8)
Divides(k, a, b, q, r) ==
    /\ q.some /\ r.some
    /\ WideAdd(WideMul(k, q.v, b), Wide(k, r.v)) = Wide(k, a)
    /\ Smaller(k, r.v, b)
    /\ (k = "SignedAmount" /\ r.v # ZeroBytes(8) => Negative(r.v) = Negative(a))

\* what the five checked functions return, stated on the numbers
ExactChecked(f, k, a, b, r) ==
    IF f \in {"add", "sub", "mul"} THEN r = ExactOrNone(k, Exact(f, k, a, b))
    ELSE IF b = ZeroBytes(8) THEN r = NoAmount
    ELSE r.some => Divides(k, a, b, amount_checked_div(k, a, b), amount_checked_rem(k, a, b))

\* C25: checked_add, checked_sub and checked_mul of Amount (u64) and
\* SignedAmount (i64) return None exactly when the mathematical result is out
\* of the range of the type and Some of the exact result otherwise;
\* checked_div and checked_rem return None for a zero divisor (and the exact
\* quotient and remainder when they return Some); the operators + - * / %
\* panic in exactly the cases where the checked form returns None and give its
\* value otherwise, and so do the assign forms, which leave it in self.
C25_CheckedArithmetic ==
    /\ op = "checked" =>
            ExactChecked(args[1], args[2], args[3], args[4], returned)
    /\ op = "operator" =>
            /\ returned.panicked = ~amount_checked(args[1], args[2], args[3], args[4]).some
            /\ ~returned.panicked =>
                   Some(returned.v) = amount_checked(args[1], args[2], args[3], args[4])
    /\ op = "assign" =>
            /\ returned.panicked = ~amount_checked(args[1], args[2], args[3], args[4]).some
            /\ ~returned.panicked =>
                   Some(returned.self) = amount_checked(args[1], args[2], args[3], args[4])

\* Amount::from_sat(8446744073709551615) * 3 panics (the test of amount.rs)
C25_Witness ==
    /\ op = "operator"
    /\ args = <<"mul", "Amount", <<255, 255, 23, 118, 251, 220, 56, 117>>,
                <<3, 0, 0, 0, 0, 0, 0, 0>>>>
    /\ returned.panicked


\* the fields of a record decoded one by one, each on its own from the bytes
\* that the fields before it left: st holds the fields, the bytes, the
\* position of the source, the field to come, the values, the bytes of the
\* completed reads and the error
FieldNext(st, r) ==
    IF r.ok
    THEN [st EXCEPT !.pos = @ + r.consumed, !.read = @ + BytesRead(r.log),
                    !.i = @ + 1, !.vals = Append(@, r.val)]
    ELSE [st EXCEPT !.ok = FALSE, !.err = r.err, !.read = @ + BytesRead(r.log),
                    !.pos = @ + r.pos]

RECURSIVE FieldWise(_)
FieldWiseStep(st) ==
    IF ~st.ok \/ st.i > Len(st.fs) THEN st
    ELSE FieldWise({FieldNext(st, r) :
                       r \in {deserialize_partial(st.fs[st.i], BDrop(st.data, st.pos))}})
FieldWise(S) == CHOOSE res \in {FieldWiseStep(st) : st \in S} : TRUE

FieldStart(t, data) ==
    [fs |-> Fields(t), data |-> data, pos |-> 0, i |-> 1, vals |-> <<>>, read |-> 0,
     ok |-> TRUE, err |-> NoError]

\* the record decoder did what the fields decoded one by one do
AsFieldWise(r, st) ==
    IF st.ok
    THEN r.ok /\ r.val = st.vals /\ r.consumed = st.pos /\ BytesRead(r.log) = st.pos
    ELSE ~r.ok /\ r.err = st.err /\ BytesRead(r.log) = st.read /\ r.pos = st.pos

\* C26: a record decodes its fields in declared order from the same source;
\* the error of the first field that fails is returned unchanged, and no byte
\* is read for a later field: the bytes read and the position of the source
\* are those of the fields before it and of the failing field itself.
C26_FirstFieldError ==
    (op = "deserialize_partial" /\ ty.k \in RecordKinds) =>
        \A st \in {FieldWise({FieldStart(ty, wire)})} : AsFieldWise(result, st)

\* a Triple whose third field has a non-minimal length: 8 bytes of the two
\* fields before it and 3 bytes of the length are read, the 2 after it are not
C26_Witness ==
    /\ op = "deserialize_partial" /\ ty = T("Triple")
    /\ wire = BFromSeq(<<1, 0, 0, 0, 1, 2, 3, 4, 253, 1, 0, 9, 9>>)
    /\ ~result.ok /\ result.err = NonMinimalVarInt
    /\ BytesRead(result.log) = 11 /\ result.pos = 11

\* sum of slice[i] * 256^i as 16-bit limbs, low limb first
LeValue(slice) == [j \in 1..(Len(slice) \div 2) |-> slice[2 * j - 1] + 256 * slice[2 * j]]
Reversed(q) == [i \in 1..Len(q) |-> q[Len(q) + 1 - i]]
\* sum of slice[i] * 256^(n - 1 - i)
BeValue(slice) == LeValue(Reversed(slice))

\* C27: slice_to_u16_le, slice_to_u32_le and slice_to_u64_le return the sum of
\* slice[i] * 256^i and slice_to_u32_be the sum of slice[i] * 256^(3 - i);
\* u32_to_array_be is the inverse of slice_to_u32_be; a slice of any other
\* length than the size of the type triggers the length assertion.
C27_ByteOrder ==
    /\ op = "slice_to" =>
           /\ returned.panicked = (Len(args[2]) # SliceSize(args[1]))
           /\ ~returned.panicked =>
                  /\ args[1] # "slice_to_u32_be" => returned.v = LeValue(args[2])
                  /\ args[1] = "slice_to_u32_be" =>
                         /\ returned.v = BeValue(args[2])
                         /\ u32_to_array_be(returned.v) = args[2]
    /\ op = "u32_to_array_be" =>
           /\ Len(returned) = 4
           /\ slice_to("slice_to_u32_be", returned) = [panicked |-> FALSE, v |-> args[1]]

\* slice_to_u32_be(&[0xde, 0xad, 0xbe, 0xef]) is 0xdeadbeef
C27_Witness ==
    /\ op = "slice_to"
    /\ args = <<"slice_to_u32_be", <<222, 173, 190, 239>>>>
    /\ returned = [panicked |-> FALSE, v |-> <<48879, 57005>>]

\* C29 as stated: every CommandString decoded from 12 bytes has at most 12
\* bytes of UTF-8, so encoding it again succeeds and never returns
\* UnrecognizedNetworkCommand.
C29_DecodedCommandEncodes ==
    /\ (op \in {"deserialize", "deserialize_partial"} /\ ty = T("CommandString")
            /\ result.ok) =>
           /\ Len(result.val) <= 12
           /\ consensus_encode(ty, NewCursor, result.val).ok
    /\ ty = T("CommandString") => op # "reserialize_panic"

\* the number of elements of a decoded sequence
Elements(t, v) == IF t.k = "VecU8" THEN BLen(v) ELSE Len(v)

\* C30 as stated: decoding a sequence does not depend on the pointer width; a
\* declared length above 4,000,000, lengths of 2^32 or more among them, is
\* rejected without reading an element, as a 64-bit build does, and a
\* sequence that is accepted has as many elements as its length declares.
C30_WidthIndependent ==
    (op = "deserialize_partial" /\ ty.k \in {"VecU8", "VecU64", "VecVecU8"}
         /\ WholePrefix(wire) /\ MinimalPrefix(wire)) =>
        /\ result.ok => IntToLimbs(Elements(ty, result.val), 4) = Declared(wire)
        /\ LimbsLt(IntToLimbs(MAX_VEC_SIZE, 4), Declared(wire)) =>
               /\ ~result.ok
               /\ result.err.kind \in {"OversizedVectorAllocation", "ParseFailed"}
               /\ BytesRead(result.log) = PrefixLen(FirstBytes(wire, 1)[1])

====
